---- MODULE Spec2Model ----
(***************************************************************************)
(* Verification model of the mesh-optimizer proxy and its browser client:  *)
(*   backend/routes/meshOptimizer.js  dedup lookup, tag merge, start of an *)
(*                                    upload, status normalizer            *)
(*   frontend/src/App.vue             upload flow and poll loop            *)
(* Strings that the code compares, lower-cases or concatenates are         *)
(* sequences of one-character strings.  Progress shown by the client is    *)
(* held in units of 1/ProgScale percent.                                   *)
(***************************************************************************)
EXTENDS Integers, Sequences, FiniteSets, TLC

VARIABLES
    \* ---- GET /api/status/:id under test ----
    stSnap,            \* upstream snapshot the route reads
    stOut,             \* the route's answer
    stPc,              \* "idle" | "answered"
    \* ---- App.vue: the poll loop of one flow ----
    state,             \* reactive { progress, stage, eta, indeterminate }
    poll,              \* locals of pollStatus, and where the loop stands
    stop,              \* the cancel flag
    error,             \* error.value (None or Some(message))
    downloads,         \* downloads.value
    rapidmodelId,      \* rapidmodelId.value
    localStorage,      \* etaAvg_queued / etaAvg_processing
    clock,             \* performance.now(), in ms
    nudges,            \* add-formats requests sent so far
    ticks,             \* status requests sent so far
    lastStage,         \* currentStage before the latest tick
    \* ---- upstream asset catalog ----
    assetTags,         \* asset id -> its tag list
    assetPage,         \* asset id -> page of the unfiltered listing (0: no such asset)
    nPages,            \* pages of the unfiltered listing
    \* ---- backend routes ----
    fb,                \* findByHash in progress: locals and position
    tagReq,            \* POST /api/rawmodel/:id/tags requests in progress
    resp,              \* the latest browser-facing response
    \* ---- App.vue: startFlow ----
    flow,              \* position and locals of the current flow
    hist,              \* facts about earlier steps the claims refer to
    \* ---- App.vue: the flows of one page, their poll loops and the buttons ----
    session,           \* busy.value and the control state of every flow started
    \* ---- backend routes that stand alone ----
    opt,               \* POST /api/optimize in progress
    proxy,             \* GET /api/proxy-download in progress
    legacy,            \* findByHash of server.js in progress
    \* ---- the older clients ----
    publicApp,         \* public/app.js: processFile in progress and what the page shows
    poller             \* utils/statusPoller.ts: pollStatus in progress and its module variables

statusVars == <<stSnap, stOut, stPc>>
pollVars == <<state, poll, stop, error, downloads, rapidmodelId, localStorage,
              clock, nudges, ticks, lastStage>>
pollNoError == <<state, poll, stop, downloads, rapidmodelId, localStorage,
                 clock, nudges, ticks, lastStage>>
catalogVars == <<assetTags, assetPage, nPages>>
routeVars == <<fb, tagReq, resp>>
flowVars == <<flow, hist>>
dedupVars == <<catalogVars, routeVars, flowVars>>
sessionVars == <<session>>
serviceVars == <<opt, proxy, legacy, publicApp, poller>>
vars == <<statusVars, pollVars, dedupVars, sessionVars, serviceVars>>

(***************************************************************************)
(* Strings                                                                 *)
(***************************************************************************)
UpperChars == <<"A","B","C","D","E","F","G","H","I","J","K","L","M",
                "N","O","P","Q","R","S","T","U","V","W","X","Y","Z">>
LowerChars == <<"a","b","c","d","e","f","g","h","i","j","k","l","m",
                "n","o","p","q","r","s","t","u","v","w","x","y","z">>

\* upper-case letter -> lower-case letter
LowerTable ==
    [c \in {UpperChars[i] : i \in DOMAIN UpperChars} |->
        LowerChars[CHOOSE i \in DOMAIN UpperChars : UpperChars[i] = c]]

\* one character of String.prototype.toLowerCase
LowerChar(c) == IF c \in DOMAIN LowerTable THEN LowerTable[c] ELSE c

\* String.prototype.toLowerCase
ToLowerCase(s) == [i \in DOMAIN s |-> LowerChar(s[i])]

\* String.prototype.substring(0, n)
Substring0(s, n) == SubSeq(s, 1, IF Len(s) < n THEN Len(s) ELSE n)

\* the status words of the switch in GET /api/status/:id
S_queued     == <<"q","u","e","u","e","d">>
S_pending    == <<"p","e","n","d","i","n","g">>
S_waiting    == <<"w","a","i","t","i","n","g">>
S_processing == <<"p","r","o","c","e","s","s","i","n","g">>
S_running    == <<"r","u","n","n","i","n","g">>
S_optimizing == <<"o","p","t","i","m","i","z","i","n","g">>
S_done       == <<"d","o","n","e">>
S_completed  == <<"c","o","m","p","l","e","t","e","d">>
S_finished   == <<"f","i","n","i","s","h","e","d">>
S_ready      == <<"r","e","a","d","y">>
S_success    == <<"s","u","c","c","e","s","s">>
S_failed     == <<"f","a","i","l","e","d">>
S_error      == <<"e","r","r","o","r">>
S_cancelled  == <<"c","a","n","c","e","l","l","e","d">>

S_http       == <<"h","t","t","p">>
S_glb        == <<"g","l","b">>
S_all        == <<"a","l","l">>
S_file       == <<"f","i","l","e">>
S_errorWord  == <<"e","r","r","o","r">>
S_infoWord   == <<"i","n","f","o">>

\* String.prototype.startsWith
StartsWith(s, pre) == Len(s) >= Len(pre) /\ SubSeq(s, 1, Len(pre)) = pre

\* an includes test that finds nothing
IncludesNever(s, sub) == FALSE

\* String.prototype.includes
Includes(s, sub) ==
    \E i \in 0..(Len(s) - Len(sub)) : SubSeq(s, i + 1, i + Len(sub)) = sub

\* s.split('.').pop(): what follows the last dot (all of s without a dot)
SplitPop(s) ==
    IF \E i \in DOMAIN s : s[i] = "."
    THEN LET last == CHOOSE i \in DOMAIN s :
                        s[i] = "." /\ \A j \in DOMAIN s : s[j] = "." => j <= i
         IN SubSeq(s, last + 1, Len(s))
    ELSE s

(***************************************************************************)
(* JSON values read from the upstream.  A value that may be missing is a   *)
(* sequence of length 0 or 1.  A number field is a record: kind "num" with *)
(* value v, "absent", or "text" (a string that is not a number).           *)
(***************************************************************************)
None == <<>>
Some(x) == <<x>>
Num(v) == [k |-> "num", v |-> v]
AbsentNum == [k |-> "absent", v |-> 0]
TextNum == [k |-> "text", v |-> 0]
NaN == [k |-> "nan", v |-> 0]

\* Number(x || 0)
NumberOr0(x) ==
    IF x.k = "absent" THEN Num(0)
    ELSE IF x.k = "text" THEN NaN
    ELSE x

\* Math.min / Math.max with NaN propagation
MathMin(a, b) ==
    IF a.k = "nan" \/ b.k = "nan" THEN NaN
    ELSE IF a.v <= b.v THEN a ELSE b
MathMax(a, b) ==
    IF a.k = "nan" \/ b.k = "nan" THEN NaN
    ELSE IF a.v >= b.v THEN a ELSE b

\* x || d  for a number x: 0 and NaN are falsy
OrDefault(x, d) == IF x.k = "nan" \/ x.v = 0 THEN Num(d) ELSE x

(***************************************************************************)
(* GET /api/status/:id                                                     *)
(***************************************************************************)
\* the switch with the 'cancelled' label lost and unmapped words failing
SwitchCaseStrict(rapidStatus) ==
    IF rapidStatus \in {S_queued, S_pending, S_waiting} THEN "queued"
    ELSE IF rapidStatus \in {S_processing, S_running, S_optimizing} THEN "processing"
    ELSE IF rapidStatus \in {S_done, S_completed, S_finished, S_ready, S_success} THEN "ready"
    ELSE IF rapidStatus \in {S_failed, S_error} THEN "error"
    ELSE IF rapidStatus = S_cancelled THEN "default"
    ELSE "error"

\* the case label the switch on rapidStatus selects
SwitchCase(rapidStatus) ==
    IF rapidStatus \in {S_queued, S_pending, S_waiting} THEN "queued"
    ELSE IF rapidStatus \in {S_processing, S_running, S_optimizing} THEN "processing"
    ELSE IF rapidStatus \in {S_done, S_completed, S_finished, S_ready, S_success} THEN "ready"
    ELSE IF rapidStatus \in {S_failed, S_error, S_cancelled} THEN "error"
    ELSE "default"

\* stage assigned in each case
StageOfCase(c) == IF c = "default" THEN "processing" ELSE c

\* progress assigned in each case
ProgressOfCase(c, rapidProgress) ==
    CASE c = "queued"     -> MathMax(Num(20), MathMin(Num(50), rapidProgress))
      [] c = "processing" -> MathMax(Num(50), MathMin(Num(95), OrDefault(rapidProgress, 75)))
      [] c = "ready"      -> Num(100)
      [] c = "error"      -> Num(0)
      [] OTHER            -> MathMax(Num(50), MathMin(Num(90), OrDefault(rapidProgress, 60)))

\* a download map is a sequence of entries [key, str, obj]: the value is
\* the string str (obj = None) or the nested map Some(entries)
IsStr(e) == e.obj = None
Truthy(e) == ~IsStr(e) \/ e.str # <<>>

RECURSIVE AllFormats(_)
\* Object.entries(dlData.all).forEach: string urls only
AllFormats(entries) ==
    IF entries = <<>> THEN <<>>
    ELSE LET e == Head(entries)
         IN (IF IsStr(e) /\ e.str # <<>>
             THEN <<[format |-> SplitPop(e.key), url |-> e.str]>>
             ELSE <<>>) \o AllFormats(Tail(entries))

RECURSIVE OtherFormats(_)
\* Object.entries(dlData).forEach: other top-level http strings
OtherFormats(entries) ==
    IF entries = <<>> THEN <<>>
    ELSE LET e == Head(entries)
         IN (IF e.key # S_all /\ e.key # S_glb /\ IsStr(e) /\ StartsWith(e.str, S_http)
             THEN <<[format |-> e.key, url |-> e.str]>>
             ELSE <<>>) \o OtherFormats(Tail(entries))

\* dlData[key] for a map given as entries (None when the key is missing)
Lookup(entries, key) ==
    IF \E i \in DOMAIN entries : entries[i].key = key
    THEN Some(entries[CHOOSE i \in DOMAIN entries : entries[i].key = key])
    ELSE None

\* downloads pushed from latestRapid.downloads
JobDownloads(dl) ==
    IF dl = None THEN <<>>
    ELSE LET dlData == dl[1]
             glb == Lookup(dlData, S_glb)
             all == Lookup(dlData, S_all)
         IN (IF glb # None /\ Truthy(glb[1])
             THEN <<[format |-> S_glb, url |-> glb[1].str]>> ELSE <<>>)
            \o (IF all # None /\ ~IsStr(all[1]) THEN AllFormats(all[1].obj[1]) ELSE <<>>)
            \o OtherFormats(dlData)

RECURSIVE RawDownloads(_, _)
\* Object.entries(rawmodel.data.downloads).forEach; skipNoise is the
\* !filename.includes('error') && !filename.includes('info') test
RawDownloads(entries, skipNoise) ==
    IF entries = <<>> THEN <<>>
    ELSE LET e == Head(entries)
             keep == IsStr(e) /\ StartsWith(e.str, S_http)
                     /\ (skipNoise =>
                           ~Includes(e.key, S_errorWord) /\ ~Includes(e.key, S_infoWord))
         IN (IF keep
             THEN <<[format |-> IF Includes(e.key, <<".">>)
                                THEN ToLowerCase(SplitPop(e.key)) ELSE S_file,
                     url |-> e.str]>>
             ELSE <<>>) \o RawDownloads(Tail(entries), skipNoise)

RECURSIVE FilterUrl(_)
\* downloads.filter(d => d.url)
FilterUrl(ds) ==
    IF ds = <<>> THEN <<>>
    ELSE (IF Head(ds).url # <<>> THEN <<Head(ds)>> ELSE <<>>) \o FilterUrl(Tail(ds))

\* Math.round(progress) followed by JSON.stringify: NaN is sent as null
JsonProgress(p) == IF p.k = "nan" THEN None ELSE Some(p.v)

\* String(latestRapid.optimization_status || '').toLowerCase()
RapidStatus(job) ==
    ToLowerCase(IF job.optimization_status = None THEN <<>> ELSE job.optimization_status[1])

\* an asset read whose failure goes unnoticed
AssetMissingNever(snap) == FALSE

\* rawmodel?.__rp_error after rpSafe(`/rawmodel/${rawmodelId}`)
AssetMissing(snap) == ~snap.rawOk

\* The whole handler.  snap.rawOk: the asset read succeeded; snap.rawDownloads:
\* rawmodel.data.downloads (None or Some(entries)); snap.listOk: the job list
\* read succeeded; snap.jobs: the jobs in the order the upstream lists them.
StatusRoute(snap) ==
    IF AssetMissing(snap)
    THEN [code |-> 404, stage |-> None, progress |-> None,
          rapidmodelId |-> None, downloads |-> None]
    ELSE
    LET rapidList == IF snap.listOk THEN snap.jobs ELSE <<>>
    IN IF Len(rapidList) > 0
       THEN LET latestRapid == rapidList[Len(rapidList)]
                c == SwitchCase(RapidStatus(latestRapid))
                rapidProgress == NumberOr0(latestRapid.progress)
                own == JobDownloads(latestRapid.downloads)
                dls ==
                    IF c # "ready" THEN <<>>
                    ELSE IF Len(own) > 0 THEN own
                    ELSE IF snap.rawDownloads # None
                         THEN RawDownloads(snap.rawDownloads[1], FALSE)
                         ELSE <<>>
            IN [code |-> 200, stage |-> Some(StageOfCase(c)),
                progress |-> JsonProgress(ProgressOfCase(c, rapidProgress)),
                rapidmodelId |-> Some(latestRapid.id),
                downloads |-> Some(FilterUrl(dls))]
       ELSE LET dls == IF snap.rawDownloads # None
                             THEN RawDownloads(snap.rawDownloads[1], TRUE)
                             ELSE <<>>
            IN IF Len(dls) > 0
               THEN [code |-> 200, stage |-> Some("ready"), progress |-> Some(100),
                     rapidmodelId |-> None, downloads |-> Some(FilterUrl(dls))]
               ELSE [code |-> 200, stage |-> Some("queued"), progress |-> Some(30),
                     rapidmodelId |-> None, downloads |-> Some(<<>>)]

(***************************************************************************)
(* Upstream snapshots handed to the status route                           *)
(***************************************************************************)
U_a == <<"h","t","t","p","s",":","/","/","u","/","a">>
U_b == <<"h","t","t","p","s",":","/","/","u","/","b">>
U_ftp == <<"f","t","p",":","/","/","u">>
K_usdz == <<"u","s","d","z">>
K_modelGlb == <<"m","o","d","e","l",".","G","L","B">>
K_errorLog == <<"e","r","r","o","r",".","l","o","g">>
K_infoJson == <<"i","n","f","o",".","j","s","o","n">>

StrEntry(key, str) == [key |-> key, str |-> str, obj |-> None]
ObjEntry(key, entries) == [key |-> key, str |-> <<>>, obj |-> Some(entries)]

\* status words as the upstream may spell them
StatusWords ==
    { S_queued, S_pending, S_waiting, S_processing, S_running, S_optimizing,
      S_done, S_completed, S_finished, S_ready, S_success,
      S_failed, S_error, S_cancelled,
      <<"Q","U","E","U","E","D">>, <<"D","o","n","e">>, <<"F","a","i","l","e","d">>,
      <<"R","u","n","n","i","n","g">>, <<"C","A","N","C","E","L","L","E","D">>,
      <<"c","a","n","c","e","l","e","d">>, <<"P","a","u","s","e","d">>,
      <<"u","n","k","n","o","w","n">>, <<>> }

StatusFields == {None} \cup {Some(w) : w \in StatusWords}

ProgressFields ==
    {AbsentNum, TextNum, Num(0 - 5), Num(0), Num(30), Num(60), Num(97), Num(100), Num(150)}

JobDownloadFields ==
    { None,
      Some(<<>>),
      Some(<<StrEntry(S_glb, U_a)>>),
      Some(<<ObjEntry(S_all, <<StrEntry(K_modelGlb, U_a), StrEntry(K_usdz, <<>>)>>),
             StrEntry(K_usdz, U_b), StrEntry(K_infoJson, U_ftp)>>) }

RawDownloadFields ==
    { None,
      Some(<<StrEntry(K_errorLog, U_a), StrEntry(K_infoJson, U_b)>>),
      Some(<<StrEntry(K_modelGlb, U_a), StrEntry(K_errorLog, U_b)>>) }

Job(id, created, status, progress, dl) ==
    [id |-> id, created_at |-> created, optimization_status |-> status,
     progress |-> progress, downloads |-> dl]

\* the earlier job of a two-job list
OlderJob == Job(7, 1, Some(S_queued), Num(30), None)

StatusSnapshots ==
    { [rawOk |-> ro, listOk |-> lo, rawDownloads |-> rd, jobs |-> js] :
        ro \in BOOLEAN, lo \in BOOLEAN, rd \in RawDownloadFields,
        js \in {<<>>}
               \cup { <<Job(8, 2, st, pr, dl)>> :
                        st \in StatusFields, pr \in ProgressFields, dl \in JobDownloadFields }
               \cup { <<OlderJob, Job(8, 2, st, Num(60), None)>> : st \in StatusFields }
               \cup { <<Job(8, 2, st, Num(60), None), OlderJob>> : st \in StatusFields } }

ParkedSnapshot == [rawOk |-> FALSE, listOk |-> FALSE, rawDownloads |-> None, jobs |-> <<>>]
ParkedResponse == StatusRoute(ParkedSnapshot)

InitStatus ==
    /\ stSnap \in StatusSnapshots
    /\ stOut = ParkedResponse
    /\ stPc = "idle"

ParkStatus ==
    /\ stSnap = ParkedSnapshot
    /\ stOut = ParkedResponse
    /\ stPc = "parked"

\* router.get('/api/status/:id')
StatusGet ==
    /\ stPc = "idle"
    /\ stOut' = StatusRoute(stSnap)
    /\ stPc' = "answered"
    /\ UNCHANGED <<stSnap, pollVars, dedupVars, sessionVars, serviceVars>>


(***************************************************************************)
(* App.vue: ETA profile and progress model                                 *)
(***************************************************************************)
\* displayed progress is held in units of 1/ProgScale percent, the eased
\* time fraction in units of 1/TScale
ProgScale == 10
TScale == 1000

ETA_DEFAULTS == [queued |-> 45000, processing |-> 240000]

Max2(a, b) == IF a >= b THEN a ELSE b
Min2(a, b) == IF a <= b THEN a ELSE b

\* a getAvgMs that accepts every stored number
getAvgMsAnyNumber(ls, stage) ==
    LET v == ls[stage]
    IN IF v.k = "num" THEN v.v ELSE ETA_DEFAULTS[stage]

\* getAvgMs: a stored entry is "absent", a number ("num"), text that is no
\* number ("text") or the text of a non-finite number ("inf")
getAvgMs(ls, stage) ==
    LET v == ls[stage]
    IN IF v.k = "num" /\ v.v > 0 THEN v.v ELSE ETA_DEFAULTS[stage]

\* updateAvgMs: Math.round((1 - alpha) * prev + alpha * sampleMs), alpha = 0.3
updateAvgMs(ls, stage, sampleMs) ==
    LET prev == getAvgMs(ls, stage)
        next == (7 * prev + 3 * sampleMs + 5) \div 10
    IN [ls EXCEPT ![stage] = Num(next)]

\* humanizeMs, as <<minutes, seconds>>
humanizeMs(ms) ==
    LET s == Max2(0, (ms + 500) \div 1000)
    IN <<s \div 60, s % 60>>

\* progressForStage, scaled by ProgScale
progressForStage(stage, elapsedMs, avgMs) ==
    LET den == Max2(1, avgMs)
        t == IF elapsedMs >= den THEN TScale ELSE (elapsedMs * TScale) \div den
        eased == TScale * TScale - (TScale - t) * (TScale - t)
        start == IF stage = "queued" THEN 20 ELSE 50
        end == IF stage = "queued" THEN 50 ELSE 95
    IN start * ProgScale + ((end - start) * ProgScale * eased) \div (TScale * TScale)

EtaText(k) == [k |-> k, m |-> 0, s |-> 0]
EtaCountdown(ms) == [k |-> "countdown", m |-> humanizeMs(ms)[1], s |-> humanizeMs(ms)[2]]

(***************************************************************************)
(* App.vue: pollStatus                                                     *)
(***************************************************************************)
MaxTicks == 3          \* status requests per model run
MaxClock == 700000     \* the clock stops advancing here
TimeSteps == {10000, 300000}   \* time from one tick to the next

\* what the client's fetch can bring back from GET /api/status/:id
PollSnapshots ==
    { [rawOk |-> ro, listOk |-> lo, rawDownloads |-> rd, jobs |-> js] :
        ro \in BOOLEAN, lo \in BOOLEAN,
        rd \in {None, Some(<<StrEntry(K_modelGlb, U_a)>>)},
        js \in {<<>>}
               \cup { <<Job(8, 2, Some(st), pr, dl)>> :
                        st \in {S_queued, S_running, S_done, S_failed,
                                <<"P","a","u","s","e","d">>},
                        pr \in {AbsentNum, TextNum, Num(97)},
                        dl \in {None, Some(<<StrEntry(S_glb, U_a)>>)} } }

PollResponses == { StatusRoute(sn) : sn \in PollSnapshots }

\* what the browser's storage may hold when a flow starts
StoredProfiles ==
    { [queued |-> AbsentNum, processing |-> AbsentNum],
      [queued |-> Num(20000), processing |-> TextNum],
      [queued |-> Num(0 - 5), processing |-> Num(100000)] }

IdleLocals ==
    [pc |-> "idle", delay |-> 1000, currentStage |-> "waiting",
     stuckAt95Count |-> 0, maxStuckRetries |-> 10,
     queueStart |-> 0, procStart |-> 0, startedAt |-> 0, now |-> 0,
     p |-> 0,            \* p at the end of the latest iteration, scaled by ProgScale
     stuckRun |-> 0,     \* history: the latest responses in a row that were stuck
     runNudges |-> 0]    \* history: the nudges sent during that row

IdleState == [progress |-> 0, stage |-> "waiting", eta |-> EtaText("calculating"),
              indeterminate |-> FALSE]

InitPoll ==
    /\ state = IdleState
    /\ poll = IdleLocals
    /\ stop = FALSE
    /\ error = None
    /\ downloads = <<>>
    /\ rapidmodelId = None
    /\ localStorage \in StoredProfiles
    /\ clock = 5000
    /\ nudges = 0
    /\ ticks = 0
    /\ lastStage = "waiting"

ParkPoll ==
    /\ state = IdleState
    /\ poll = [IdleLocals EXCEPT !.pc = "parked"]
    /\ stop = FALSE
    /\ error = None
    /\ downloads = <<>>
    /\ rapidmodelId = None
    /\ localStorage = [queued |-> AbsentNum, processing |-> AbsentNum]
    /\ clock = 0
    /\ nudges = 0
    /\ ticks = 0
    /\ lastStage = "waiting"

\* pollStatus(rawId) is entered: locals and UI are reset, the loop condition
\* is tested and the first status request is sent
PollStart ==
    /\ poll.pc = "idle"
    /\ state' = IdleState
    /\ poll' = [IdleLocals EXCEPT !.startedAt = clock, !.now = clock,
                                  !.pc = IF stop THEN "done" ELSE "fetch"]
    /\ ticks' = IF stop THEN ticks ELSE ticks + 1
    /\ lastStage' = "waiting"
    /\ UNCHANGED <<stop, error, downloads, rapidmodelId, localStorage, clock, nudges>>
    /\ UNCHANGED <<statusVars, dedupVars, sessionVars, serviceVars>>

\* String(status.stage || 'unknown')
StageOfBody(body) == IF body.stage = None THEN "unknown" ELSE body.stage[1]
\* Number(status.progress || 0)
ProgressOfBody(body) == IF body.progress = None THEN 0 ELSE body.progress[1]
\* !Array.isArray(status.downloads) || status.downloads.length === 0
NoDownloads(body) == body.downloads = None \/ body.downloads[1] = <<>>

\* a stuck detector that keeps its first threshold after a nudge
StuckStepSameThreshold(count, max, p, body) ==
    IF p >= 95 /\ p < 100 /\ NoDownloads(body)
    THEN IF count + 1 >= max THEN <<0, max, TRUE>> ELSE <<count + 1, max, FALSE>>
    ELSE <<0, max, FALSE>>

\* the stuck-at-95 counter after a tick: <<count, max, nudge sent>>
StuckStep(count, max, p, body) ==
    IF p >= 95 /\ p < 100 /\ NoDownloads(body)
    THEN IF count + 1 >= max THEN <<0, 15, TRUE>> ELSE <<count + 1, max, FALSE>>
    ELSE <<0, max, FALSE>>

\* a loop that also stops on ready without downloads
LoopExitOnReady(stage, body) == stage \in {"ready", "error"}

\* the breaks of the loop body: error, and ready with downloads
LoopExit(stage, body) == stage = "error" \/ (stage = "ready" /\ ~NoDownloads(body))

\* the EstimationProfile after the stage-transition block
ProfileAfter(ls, l, stage) ==
    IF stage = l.currentStage THEN ls
    ELSE IF stage = "processing"
         THEN IF l.queueStart > 0
              THEN updateAvgMs(ls, "queued", l.now - l.queueStart) ELSE ls
    ELSE IF stage = "ready"
         THEN IF l.currentStage = "processing" /\ l.procStart > 0
              THEN updateAvgMs(ls, "processing", l.now - l.procStart)
              ELSE IF l.currentStage = "queued" /\ l.queueStart > 0
                   THEN updateAvgMs(ls, "queued", l.now - l.queueStart)
                   ELSE ls
    ELSE ls

\* the current stage the loop keeps after the stage-transition block
NextCurrentStage(currentStage, stage) == stage

\* the clamp without the maximum over the value already shown
NextProgressRaw(shown, p) == Min2(100 * ProgScale, p)

\* Math.min(100, Math.max(state.progress, p)), scaled by ProgScale
NextProgress(shown, p) == Min2(100 * ProgScale, Max2(shown, p))

\* a delay that grows after every answered request
NextDelayAlwaysGrows(delay, p, stage) == Min2(8000, (delay * 12) \div 10)

\* the delay after an iteration that did not break: Math.min(3000, delay)
\* near the cap, Math.min(8000, Math.floor(delay * 1.2)) otherwise
NextDelay(delay, p, stage) ==
    IF p >= 95 * ProgScale /\ stage = "processing"
    THEN Min2(3000, delay)
    ELSE Min2(8000, (delay * 12) \div 10)

\* an error branch that writes the progress and the stage before it breaks
StateOnErrorWritten(st, eta, ind) ==
    [progress |-> 0, stage |-> "error", eta |-> eta, indeterminate |-> ind]

\* stage === 'error': eta and indeterminate are set, then break, ahead of
\* the assignments to state.progress and state.stage
StateOnError(st, eta, ind) == [st EXCEPT !.eta = eta, !.indeterminate = ind]

\* one loop iteration whose fetch brought back the JSON body `body`
PollTickOk(body) ==
    /\ poll.pc = "fetch"
    /\ LET l == poll
           stage == StageOfBody(body)
           p0 == ProgressOfBody(body)
           stuck == StuckStep(l.stuckAt95Count, l.maxStuckRetries, p0, body)
           changed == stage # l.currentStage
           queueStart == IF changed /\ stage = "queued" THEN l.now ELSE l.queueStart
           procStart == IF changed /\ stage = "processing" THEN l.now ELSE l.procStart
           ls == ProfileAfter(localStorage, l, stage)
           avg == IF stage \in {"queued", "processing"} THEN getAvgMs(ls, stage) ELSE 0
           since == IF stage = "queued" THEN queueStart ELSE procStart
           elapsed == l.now - (IF since # 0 THEN since ELSE l.startedAt)
           p == CASE stage \in {"queued", "processing"}
                       -> Max2(p0 * ProgScale, progressForStage(stage, elapsed, avg))
                  [] stage = "ready" -> 100 * ProgScale
                  [] stage = "error" -> 0
                  [] OTHER -> p0 * ProgScale
           longer == 4 * elapsed > 7 * avg
           eta == CASE stage = "queued"
                         -> IF longer THEN EtaText("longer")
                            ELSE EtaCountdown(Max2(5000, avg - elapsed))
                    [] stage = "processing"
                         -> IF p >= 95 * ProgScale /\ NoDownloads(body)
                            THEN EtaText("finalizing")
                            ELSE IF longer THEN EtaText("longer")
                            ELSE EtaCountdown(Max2(10000, avg - elapsed))
                    [] stage = "ready" -> EtaText("done")
                    [] stage = "error" -> EtaText("error")
                    [] OTHER -> EtaText("calculating")
           ind == CASE stage = "processing" -> p >= 95 * ProgScale /\ NoDownloads(body)
                    [] stage \in {"queued", "ready", "error"} -> FALSE
                    [] OTHER -> TRUE
           finished == LoopExit(stage, body)
           run == IF p0 >= 95 /\ p0 < 100 /\ NoDownloads(body) THEN l.stuckRun + 1 ELSE 0
           runNudges == IF run = 0 THEN 0
                        ELSE l.runNudges + (IF stuck[3] THEN 1 ELSE 0)
           delay == NextDelay(l.delay, p, stage)
       IN /\ lastStage' = l.currentStage
          /\ nudges' = IF stuck[3] THEN nudges + 1 ELSE nudges
          /\ localStorage' = ls
          /\ IF stage = "error"
             THEN /\ state' = StateOnError(state, eta, ind)
                  /\ error' = Some("Optimization failed. Please try again.")
                  /\ poll' = [l EXCEPT !.pc = "done",
                                       !.currentStage = NextCurrentStage(l.currentStage, stage),
                                       !.stuckAt95Count = stuck[1],
                                       !.maxStuckRetries = stuck[2],
                                       !.queueStart = queueStart,
                                       !.procStart = procStart,
                                       !.p = p,
                                       !.stuckRun = run,
                                       !.runNudges = runNudges]
                  /\ UNCHANGED <<downloads, rapidmodelId>>
             ELSE /\ state' = [progress |-> NextProgress(state.progress, p),
                               stage |-> stage, eta |-> eta, indeterminate |-> ind]
                  /\ error' = error
                  /\ rapidmodelId' = IF body.rapidmodelId # None
                                     THEN body.rapidmodelId ELSE rapidmodelId
                  /\ downloads' = IF ~NoDownloads(body) THEN body.downloads[1] ELSE downloads
                  /\ poll' = [l EXCEPT !.pc = IF finished THEN "done" ELSE "sleep",
                                       !.currentStage = NextCurrentStage(l.currentStage, stage),
                                       !.stuckAt95Count = stuck[1],
                                       !.maxStuckRetries = stuck[2],
                                       !.queueStart = queueStart,
                                       !.procStart = procStart,
                                       !.p = p,
                                       !.stuckRun = run,
                                       !.runNudges = runNudges,
                                       !.delay = IF finished THEN l.delay ELSE delay]
    /\ UNCHANGED <<stop, clock, ticks, statusVars, dedupVars, sessionVars, serviceVars>>

\* the catch block with the cap left out
BackoffDelayUncapped(delay) == (delay * 15) \div 10

\* Math.min(10000, Math.floor(delay * 1.5))
BackoffDelay(delay) == Min2(10000, (delay * 15) \div 10)

\* one loop iteration whose fetch or JSON parse threw
PollTickFail ==
    /\ poll.pc = "fetch"
    /\ state' = [state EXCEPT !.indeterminate = TRUE]
    /\ poll' = [poll EXCEPT !.pc = "sleep", !.delay = BackoffDelay(poll.delay)]
    /\ UNCHANGED <<stop, error, downloads, rapidmodelId, localStorage, clock, nudges,
                   ticks, lastStage, statusVars, dedupVars, sessionVars, serviceVars>>

\* the sleep ends: the loop condition is tested and the next request is
\* sent; the model follows the loop for maxTicks requests, the sleep taking
\* one of the durations in steps
PollWakeUpTo(maxTicks, steps) ==
    /\ poll.pc = "sleep"
    /\ \E d \in steps :
          /\ d >= poll.delay
          /\ clock' = Min2(MaxClock, clock + d)
    /\ IF stop \/ ticks >= maxTicks
       THEN /\ poll' = [poll EXCEPT !.pc = IF stop THEN "done" ELSE "cut"]
            /\ ticks' = ticks
       ELSE /\ poll' = [poll EXCEPT !.pc = "fetch", !.now = clock']
            /\ ticks' = ticks + 1
    /\ UNCHANGED <<state, stop, error, downloads, rapidmodelId, localStorage, nudges,
                   lastStage, statusVars, dedupVars, sessionVars, serviceVars>>

PollWake == PollWakeUpTo(MaxTicks, TimeSteps)

\* cancel()
Cancel ==
    /\ poll.pc \in {"fetch", "sleep"}
    /\ ~stop
    /\ stop' = TRUE
    /\ UNCHANGED <<state, poll, error, downloads, rapidmodelId, localStorage, clock,
                   nudges, ticks, lastStage, statusVars, dedupVars, sessionVars, serviceVars>>

NextPoll ==
    \/ PollStart
    \/ \E body \in PollResponses : PollTickOk(body)
    \/ PollTickFail
    \/ PollWake
    \/ Cancel

\* the ETA profile on its own: any stored values, then updates with samples
MaxUpdates == 3        \* updateAvgMs calls per model run
StoredValues ==
    { AbsentNum, TextNum, [k |-> "inf", v |-> 0],
      Num(0 - 5), Num(0), Num(1), Num(2), Num(20000) }
SampleValues == {0, 1, 3, 10000, 300000}

InitAvg ==
    /\ state = IdleState
    /\ poll = [IdleLocals EXCEPT !.pc = "parked"]
    /\ stop = FALSE
    /\ error = None
    /\ downloads = <<>>
    /\ rapidmodelId = None
    /\ localStorage \in [{"queued", "processing"} -> StoredValues]
    /\ clock = 0
    /\ nudges = 0
    /\ ticks = 0
    /\ lastStage = "waiting"

\* updateAvgMs(stage, sampleMs) called on a stage transition
AvgUpdate(stage, sampleMs) ==
    /\ ticks < MaxUpdates
    /\ ticks' = ticks + 1
    /\ localStorage' = updateAvgMs(localStorage, stage, sampleMs)
    /\ UNCHANGED <<state, poll, stop, error, downloads, rapidmodelId, clock, nudges,
                   lastStage, statusVars, dedupVars, sessionVars, serviceVars>>

NextAvg == \E stage \in {"queued", "processing"}, sampleMs \in SampleValues :
              AvgUpdate(stage, sampleMs)

\* a long session of a job that stays in processing
MaxStuckTicks == 26    \* status requests per model run
StuckResponses ==
    { b \in PollResponses : StageOfBody(b) = "processing" /\ ProgressOfBody(b) \in {75, 95} }

PollWakeStuck == PollWakeUpTo(MaxStuckTicks, {10000})

NextStuck ==
    \/ PollStart
    \/ \E body \in StuckResponses : PollTickOk(body)
    \/ PollTickFail
    \/ PollWakeStuck

\* a session over a failing connection, which the user may cancel
MaxBackoffTicks == 8   \* status requests per model run
PollWakeBackoff == PollWakeUpTo(MaxBackoffTicks, {10000})

NextBackoff ==
    \/ PollStart
    \/ \E body \in StuckResponses : PollTickOk(body)
    \/ PollTickFail
    \/ PollWakeBackoff
    \/ Cancel


(***************************************************************************)
(* Claims about the poll loop                                              *)
(***************************************************************************)
\* C1: on every step of a poll session the displayed progress is not lower
\* after the step than before it, and it stays within 0..100.
C1_ProgressNeverDecreases ==
    [][ /\ state'.progress >= state.progress
        /\ state'.progress \in 0..(100 * ProgScale) ]_vars

\* a tick answered "asset not found" (raw progress 0, stage unknown) while
\* progress of at least 50 was already displayed
C1_Witness ==
    /\ poll.pc = "sleep"
    /\ state.stage = "unknown"
    /\ lastStage = "processing"
    /\ state.progress >= 50 * ProgScale

\* position of a stage on the path waiting -> queued -> processing -> ready
StageRank(st) ==
    CASE st = "waiting" -> 0 [] st = "queued" -> 1 [] st = "processing" -> 2
      [] st = "ready" -> 3 [] OTHER -> 0 - 1

\* the moves the stage invariant allows
AllowedMove(from, to) ==
    \/ from = to
    \/ StageRank(from) >= 0 /\ StageRank(to) > StageRank(from)
    \/ to = "error" /\ from \in {"queued", "processing"}
    \/ to = "unknown" /\ from \in {"waiting", "queued", "processing"}
    \/ from = "unknown" /\ to \in {"queued", "processing", "ready", "error"}

\* C2: within one session the poller's current stage only moves forward
\* along waiting -> queued -> processing -> ready, error is entered only from
\* queued or processing, unknown only from a non-terminal stage; it never
\* moves backward.
C2_StageOnlyForward == AllowedMove(lastStage, poll.currentStage)

NextStatus == StatusGet


(***************************************************************************)
(* Content hashes and the tags derived from them                           *)
(***************************************************************************)
HashLen == 17          \* characters of a model hash (longer than ShortLen)
ShortLen == 16         \* hash.substring(0, 16)

HashA == [i \in 1..HashLen |-> "a"]
\* a different hash with the same first ShortLen characters
HashB == [i \in 1..HashLen |-> IF i = HashLen THEN "b" ELSE "a"]

P_sha256 == <<"s","h","a","2","5","6","-">>
P_hash == <<"h","a","s","h",":">>
P_contentHash == <<"c","o","n","t","e","n","t","-","h","a","s","h","-">>
P_filename == <<"f","i","l","e","n","a","m","e",":">>

FileName == <<"m",".","o","b","j">>

\* findByHash: searchVariants
searchVariants(hash) ==
    << P_sha256 \o hash,
       P_hash \o hash,
       hash,
       P_contentHash \o Substring0(hash, ShortLen),
       P_filename \o hash >>

\* findByHash: partialVariants
partialVariants(hash) ==
    LET shortHash == Substring0(hash, ShortLen)
    IN << P_sha256 \o shortHash, P_hash \o shortHash, shortHash >>

\* ensureHashTags that builds the filename tag only
ensureHashTagsNameOnly(hash, filename) == << P_filename \o filename >>

\* ensureHashTags: the tags the client posts after an upload
ensureHashTags(hash, filename) ==
    << P_sha256 \o hash,
       P_hash \o hash,
       P_filename \o filename,
       P_contentHash \o Substring0(hash, ShortLen) >>

Range(f) == {f[i] : i \in DOMAIN f}

(***************************************************************************)
(* Upstream catalog                                                        *)
(***************************************************************************)
AssetIds == 1..3
SearchPages == 10      \* searchByQ: maxPages
ScanPages == 20        \* scanAllPagesForTag: maxPages
CatalogPages == 21     \* pages of the largest catalog in the model

Existing == {a \in AssetIds : assetPage[a] # 0}

RECURSIVE SortedSeq(_)
\* the ids of a set in ascending order
SortedSeq(S) ==
    IF S = {} THEN <<>>
    ELSE LET m == CHOOSE x \in S : \A y \in S : x <= y
         IN <<m>> \o SortedSeq(S \ {m})

\* GET /rawmodel (page n of the unfiltered listing): items and links.next
ListingPage(n) ==
    [items |-> SortedSeq({a \in Existing : assetPage[a] = n}),
     next |-> n < nPages]

\* what a GET /rawmodel?q=... page may hold: the upstream index is not
\* trusted, so any assets and any continuation link
QueryPages ==
    { [items |-> SortedSeq(S), next |-> nx] : S \in SUBSET Existing, nx \in BOOLEAN }

(***************************************************************************)
(* searchByQ / scanAllPagesForTag / findByHash                             *)
(***************************************************************************)
\* a match on any tag that contains the query
tagMatchesSubstring(tags, query) ==
    \E i \in DOMAIN tags : Includes(ToLowerCase(tags[i]), ToLowerCase(query))

\* tagNames = tags.map(lower).filter(Boolean); tagNames.includes(lower(query))
tagMatches(tags, query) ==
    \E i \in DOMAIN tags : tags[i] # <<>> /\ ToLowerCase(tags[i]) = ToLowerCase(query)

\* for (const item of items): the first item with a matching tag
FirstMatch(items, query) ==
    IF \E i \in DOMAIN items : tagMatches(assetTags[items[i]], query)
    THEN Some(items[CHOOSE i \in DOMAIN items :
                      /\ tagMatches(assetTags[items[i]], query)
                      /\ \A j \in 1..(i - 1) : ~tagMatches(assetTags[items[j]], query)])
    ELSE None

\* the listed assets that carry the tag, letter for letter
Carriers(items, tag) == {a \in Range(items) : tag \in Range(assetTags[a])}

IdleLookup ==
    [pc |-> "idle", caller |-> "none", hash |-> <<>>, i |-> 0, pageCount |-> 0,
     next |-> 0, result |-> None, via |-> "none",
     okCalls |-> FALSE, scanFailed |-> FALSE, listedTagged |-> {}]

\* findByHash(hash) is called: the first targeted search starts
BeginLookup(caller, hash) ==
    [IdleLookup EXCEPT !.pc = "search", !.caller = caller, !.hash = hash,
                       !.i = 1, !.next = 1]

\* the variant the lookup is searching for
CurrentVariant(f) ==
    IF f.pc = "partial" THEN partialVariants(f.hash)[f.i]
    ELSE searchVariants(f.hash)[f.i]

\* a lookup that returns null as soon as one search returned null
NoHitGivesUp(f) == [f EXCEPT !.pc = "done", !.result = None]

\* a search returned null: the next variant, the next strategy, or the end
NoHit(f) ==
    LET last == IF f.pc = "partial" THEN Len(partialVariants(f.hash))
                ELSE Len(searchVariants(f.hash))
    IN IF f.i < last
       THEN [f EXCEPT !.i = f.i + 1, !.pageCount = 0, !.next = 1]
       ELSE IF f.pc = "search"
            THEN [f EXCEPT !.pc = "scan", !.i = 1, !.pageCount = 0, !.next = 1]
       ELSE IF f.pc = "scan"
            THEN [f EXCEPT !.pc = "partial", !.i = 1, !.pageCount = 0, !.next = 1]
       ELSE [f EXCEPT !.pc = "done", !.result = None]

\* a search returned an item; via is the strategy the success is logged for
Hit(f, id) == [f EXCEPT !.pc = "done", !.result = Some(id), !.via = f.pc]

\* a page was read without a match: follow links.next while pages remain
\* a full scan that stops after as many pages as a targeted search
scanBoundHalf(pc) == SearchPages

\* maxPages of searchByQ and of scanAllPagesForTag
scanBound(pc) == IF pc = "search" THEN SearchPages ELSE ScanPages

\* a search that follows links.next as long as there is one
NextPageUnbounded(f, hasNext, nextPage) ==
    IF hasNext
    THEN [f EXCEPT !.pageCount = f.pageCount + 1, !.next = nextPage]
    ELSE NoHit(f)

\* next = links.next; pageCount++; while (next && pageCount < maxPages)
NextPage(f, hasNext, nextPage) ==
    IF hasNext /\ f.pageCount + 1 < scanBound(f.pc)
    THEN [f EXCEPT !.pageCount = f.pageCount + 1, !.next = nextPage]
    ELSE NoHit(f)

\* searchByQ: one rpSafe page read that failed
SearchPageFail ==
    /\ fb.pc = "search"
    /\ fb' = NoHit(fb)
    /\ UNCHANGED <<catalogVars, tagReq, resp, flowVars, statusVars, pollVars, sessionVars, serviceVars>>

\* searchByQ: one rpSafe page read that was answered
SearchPageOk(page) ==
    /\ fb.pc = "search"
    /\ LET f == [fb EXCEPT !.okCalls = TRUE,
                           !.listedTagged = IF fb.i = 1
                                            THEN @ \cup Carriers(page.items, CurrentVariant(fb))
                                            ELSE @]
           hit == FirstMatch(page.items, CurrentVariant(fb))
       IN fb' = IF hit # None THEN Hit(f, hit[1]) ELSE NextPage(f, page.next, 1)
    /\ UNCHANGED <<catalogVars, tagReq, resp, flowVars, statusVars, pollVars, sessionVars, serviceVars>>

\* scanAllPagesForTag: one rpSafe page read that failed
ScanPageFail ==
    /\ fb.pc \in {"scan", "partial"}
    /\ fb' = NoHit([fb EXCEPT !.scanFailed = TRUE])
    /\ UNCHANGED <<catalogVars, tagReq, resp, flowVars, statusVars, pollVars, sessionVars, serviceVars>>

\* scanAllPagesForTag: one rpSafe page read that was answered
ScanPageOk ==
    /\ fb.pc \in {"scan", "partial"}
    /\ LET page == ListingPage(fb.next)
           f == [fb EXCEPT !.okCalls = TRUE]
           hit == FirstMatch(page.items, CurrentVariant(fb))
       IN fb' = IF hit # None THEN Hit(f, hit[1]) ELSE NextPage(f, page.next, fb.next + 1)
    /\ UNCHANGED <<catalogVars, tagReq, resp, flowVars, statusVars, pollVars, sessionVars, serviceVars>>


(***************************************************************************)
(* POST /api/rawmodel/:id/tags                                             *)
(***************************************************************************)
\* an array copy that keeps repeated elements
DedupKeepAll(list) == list

RECURSIVE Dedup(_)
\* Array.from(new Set(list)): first occurrences, in order
Dedup(list) ==
    IF list = <<>> THEN <<>>
    ELSE LET init == Dedup(SubSeq(list, 1, Len(list) - 1))
             x == list[Len(list)]
         IN IF x \in Range(init) THEN init ELSE Append(init, x)

RECURSIVE FilterBoolean(_)
\* .filter(Boolean) on tag names
FilterBoolean(list) ==
    IF list = <<>> THEN <<>>
    ELSE (IF Head(list) # <<>> THEN <<Head(list)>> ELSE <<>>) \o FilterBoolean(Tail(list))

\* the merge that writes the incoming tags only
nextTagsOverwrite(currentTags, incoming) == Dedup(incoming)

\* nextTags = Array.from(new Set([...currentTags, ...incoming]))
nextTags(currentTags, incoming) == Dedup(currentTags \o incoming)

Slots == {1, 2}

IdleTagReq == [pc |-> "idle", id |-> 0, incoming |-> <<>>, currentTags |-> <<>>, code |-> 0]

\* the request as the route receives it
NewTagReq(id, incoming) ==
    [pc |-> "read", id |-> id, incoming |-> incoming, currentTags |-> <<>>, code |-> 0]

\* cur = await rp(`/rawmodel/${id}`, 'GET')
TagRead(slot, ok) ==
    /\ tagReq[slot].pc = "read"
    /\ tagReq' = [tagReq EXCEPT ![slot] =
                    IF ok
                    THEN [tagReq[slot] EXCEPT
                            !.pc = "write",
                            !.currentTags = FilterBoolean(assetTags[tagReq[slot].id])]
                    ELSE [tagReq[slot] EXCEPT !.pc = "done", !.code = 500]]
    /\ UNCHANGED <<catalogVars, fb, resp, flowVars, statusVars, pollVars, sessionVars, serviceVars>>

\* out = await rp(`/rawmodel/${id}`, 'PUT', { tags: nextTags })
TagWrite(slot, ok) ==
    /\ tagReq[slot].pc = "write"
    /\ LET r == tagReq[slot]
           written == nextTags(r.currentTags, r.incoming)
       IN IF ok
          THEN /\ assetTags' = [assetTags EXCEPT ![r.id] = written]
               /\ tagReq' = [tagReq EXCEPT ![slot] = [r EXCEPT !.pc = "done", !.code = 200]]
               /\ hist' = [hist EXCEPT
                             !.merged = @ \cup Range(r.incoming),
                             !.writes = IF Len(@) < 2
                                        THEN Append(@, [id |-> r.id, incoming |-> r.incoming,
                                                        after |-> written])
                                        ELSE <<@[2], [id |-> r.id, incoming |-> r.incoming,
                                                      after |-> written]>>]
          ELSE /\ tagReq' = [tagReq EXCEPT ![slot] = [r EXCEPT !.pc = "done", !.code = 500]]
               /\ UNCHANGED <<assetTags, hist>>
    /\ UNCHANGED <<assetPage, nPages, fb, resp, flow, statusVars, pollVars, sessionVars, serviceVars>>

(***************************************************************************)
(* GET /api/find-by-hash and POST /api/start-upload                        *)
(***************************************************************************)
NoResponse ==
    [route |-> "none", code |-> 0, hashGiven |-> FALSE, found |-> FALSE,
     exists |-> FALSE, id |-> None, signedUrl |-> None,
     started |-> None]   \* history: the upstream's answer to the upload-session request

\* a lookup route that answers a miss like its sibling routes answer an error
FindByHashResponseStrict(hit) ==
    IF hit = None
    THEN [NoResponse EXCEPT !.route = "find", !.code = 500, !.hashGiven = TRUE]
    ELSE [NoResponse EXCEPT !.route = "find", !.code = 200, !.hashGiven = TRUE,
                            !.found = TRUE, !.id = hit]

\* router.get('/api/find-by-hash'): the answer once findByHash returned
FindByHashResponse(hit) ==
    IF hit = None
    THEN [NoResponse EXCEPT !.route = "find", !.code = 200, !.hashGiven = TRUE]
    ELSE [NoResponse EXCEPT !.route = "find", !.code = 200, !.hashGiven = TRUE,
                            !.found = TRUE, !.id = hit]

\* a start-upload that asks for an upload session whatever the lookup found
NeedsSessionAlways(hit) == TRUE

\* router.post('/api/start-upload'): if (hit) return ...; otherwise a session
NeedsSession(hit) == hit = None

\* the answer of start-upload on a hit
StartUploadHit(hit) ==
    [NoResponse EXCEPT !.route = "start", !.code = 200, !.hashGiven = TRUE,
                       !.exists = TRUE, !.id = hit]

\* a file name other than the one the client sent
OtherFile == <<"n",".","o","b","j">>

\* what POST /rawmodel/api-upload/start may bring back: the request fails,
\* or the object answered has or lacks an id and holds signed URLs for some
\* file names; a signed URL is represented by the name of the file it takes
SessionOutcomes == {"fail", "nourl", "noid", "otherfile", "ok"}

UploadStart(outcome, id) ==
    [ok |-> outcome # "fail",
     id |-> IF outcome \in {"fail", "noid"} THEN None ELSE Some(id),
     urls |-> CASE outcome \in {"ok", "noid"} -> {FileName}
                [] outcome = "otherfile" -> {OtherFile}
                [] OTHER -> {}]

\* start.links?.s3_upload_urls?.[filename]
SignedUrlFor(start, filename) == IF filename \in start.urls THEN Some(filename) ELSE None

\* a start-upload that only looks for the id
SessionIncompleteIdOnly(id, signedUrl) == id = None

\* !id || !signedUrl
SessionIncomplete(id, signedUrl) == id = None \/ signedUrl = None

\* the answer of start-upload after the upload-session request
StartUploadSession(outcome, id) ==
    LET start == UploadStart(outcome, id)
        signedUrl == SignedUrlFor(start, FileName)
        answer == [NoResponse EXCEPT !.route = "start", !.hashGiven = TRUE,
                                     !.started = Some(start)]
    IN  CASE ~start.ok -> [answer EXCEPT !.code = 500]
          [] start.ok /\ SessionIncomplete(start.id, signedUrl) -> [answer EXCEPT !.code = 502]
          [] OTHER -> [answer EXCEPT !.code = 200, !.id = start.id, !.signedUrl = signedUrl]

(***************************************************************************)
(* App.vue: startFlow                                                      *)
(***************************************************************************)
MaxFlows == 2          \* flows started per model run

NoCalls == [session |-> 0, transfer |-> 0, complete |-> 0, tags |-> 0]

IdleFlow ==
    [pc |-> "idle", n |-> 0, contentHash |-> HashA, rawmodelId |-> None,
     start |-> None, startHit |-> None, calls |-> NoCalls,
     log |-> <<>>]       \* history: the requests of the upload path that were answered

\* what the claims need to know of a finished lookup
Finished(f) ==
    [result |-> f.result, via |-> f.via, okCalls |-> f.okCalls, scanFailed |-> f.scanFailed,
     listedTagged |-> f.listedTagged]

NoHist ==
    [tags0 |-> <<>>, merged |-> {}, overlap |-> FALSE, writes |-> <<>>, posts |-> 0,
     lookup |-> Finished(IdleLookup), untagged |-> FALSE, fresh |-> None]

\* one request of the flow and whether it succeeded
Answered(req, ok) == [req |-> req, ok |-> ok]

\* a startFlow whose catch block shows nothing
SurfacedNever(ok, req) == error

\* the catch block of startFlow: error.value = e?.message || String(e)
Surfaced(ok, req) == IF ok THEN error ELSE Some(req)

\* an ensureHashTags without its own catch block
TagsRethrownOnFailure(code) == code # 200

\* ensureHashTags catches whatever the tag request throws and returns
TagsRethrown(code) == FALSE

\* some asset carries a tag that one of the lookup's variants matches
TagFor(hash) ==
    \E a \in Existing :
       \/ \E i \in 1..5 : tagMatches(assetTags[a], searchVariants(hash)[i])
       \/ \E i \in 1..3 : tagMatches(assetTags[a], partialVariants(hash)[i])

\* startFlow is entered with a file chosen: the hash is known and
\* findExistingByHash sends GET /api/find-by-hash, whose route calls findByHash
FlowStart ==
    /\ flow.pc \in {"idle", "polling", "failed"}
    /\ flow.n < MaxFlows
    /\ flow' = [IdleFlow EXCEPT !.pc = "find", !.n = flow.n + 1]
    /\ fb' = BeginLookup("find", flow.contentHash)
    /\ error' = None
    /\ UNCHANGED <<catalogVars, tagReq, resp, hist, statusVars, pollNoError, sessionVars, serviceVars>>

\* GET /api/find-by-hash without a hash parameter
FindWithoutHash ==
    /\ flow.pc = "idle"
    /\ resp.route = "none"
    /\ resp' = [NoResponse EXCEPT !.route = "find", !.code = 400]
    /\ UNCHANGED <<catalogVars, fb, tagReq, flowVars, statusVars, pollVars, sessionVars, serviceVars>>

\* find-by-hash answers; on found the client keeps the id, otherwise it
\* posts start-upload, whose route calls findByHash again
FindAnswer ==
    /\ fb.pc = "done" /\ fb.caller = "find"
    /\ resp' = FindByHashResponse(fb.result)
    /\ hist' = [hist EXCEPT !.lookup = Finished(fb)]
    /\ IF resp'.code = 200 /\ resp'.found /\ resp'.id # None
       THEN /\ flow' = [flow EXCEPT !.pc = "optimize", !.rawmodelId = resp'.id]
            /\ fb' = IdleLookup
       ELSE /\ flow' = [flow EXCEPT !.pc = "start"]
            /\ fb' = BeginLookup("start", flow.contentHash)
    /\ UNCHANGED <<catalogVars, tagReq, statusVars, pollVars, sessionVars, serviceVars>>

\* start-upload found the asset: it answers at once and the client skips
\* transfer, completion and tagging
StartAnswerHit ==
    /\ fb.pc = "done" /\ fb.caller = "start"
    /\ ~NeedsSession(fb.result)
    /\ resp' = StartUploadHit(fb.result)
    /\ flow' = [flow EXCEPT !.pc = "optimize", !.rawmodelId = resp'.id,
                            !.start = Some(resp'), !.startHit = fb.result,
                            !.log = Append(@, Answered("start-upload", TRUE))]
    /\ hist' = [hist EXCEPT !.lookup = Finished(fb),
                            !.untagged = IF flow.n = 1 THEN ~TagFor(flow.contentHash) ELSE @]
    /\ fb' = IdleLookup
    /\ UNCHANGED <<catalogVars, tagReq, statusVars, pollVars, sessionVars, serviceVars>>

\* start-upload asks the upstream for an upload session
StartSession(outcome) ==
    /\ fb.pc = "done" /\ fb.caller = "start"
    /\ NeedsSession(fb.result)
    /\ AssetIds \ Existing # {}
    /\ LET id == CHOOSE a \in AssetIds \ Existing : \A b \in AssetIds \ Existing : a <= b
       IN /\ resp' = StartUploadSession(outcome, id)
          /\ IF outcome = "fail"
             THEN UNCHANGED catalogVars
             ELSE /\ \E pg \in {1, nPages} : assetPage' = [assetPage EXCEPT ![id] = pg]
                  /\ UNCHANGED <<assetTags, nPages>>
          /\ flow' = [flow EXCEPT
                        !.pc = IF resp'.code = 200 THEN "transfer" ELSE "failed",
                        !.rawmodelId = IF resp'.code = 200 THEN resp'.id ELSE @,
                        !.start = IF resp'.code = 200 THEN Some(resp') ELSE @,
                        !.startHit = fb.result,
                        !.calls = [@ EXCEPT !.session = @ + 1],
                        !.log = Append(@, Answered("start-upload", resp'.code = 200))]
          /\ error' = Surfaced(resp'.code = 200, "start-upload")
          /\ hist' = [hist EXCEPT !.lookup = Finished(fb),
                                  !.untagged = IF flow.n = 1 THEN ~TagFor(flow.contentHash)
                                               ELSE @]
    /\ fb' = IdleLookup
    /\ UNCHANGED <<tagReq, statusVars, pollNoError, sessionVars, serviceVars>>

\* fetch(start.signedUrl, PUT) unless start.exists
Transfer(ok) ==
    /\ flow.pc = "transfer"
    /\ flow' = [flow EXCEPT !.pc = IF ok THEN "complete" ELSE "failed",
                            !.calls = [@ EXCEPT !.transfer = @ + 1],
                            !.log = Append(@, Answered("transfer", ok))]
    /\ error' = Surfaced(ok, "transfer")
    /\ UNCHANGED <<catalogVars, routeVars, hist, statusVars, pollNoError, sessionVars, serviceVars>>

\* POST /api/complete-upload/:id, then ensureHashTags posts the tags
Complete(ok) ==
    /\ flow.pc = "complete"
    /\ IF ok
       THEN /\ flow' = [flow EXCEPT !.pc = "tags",
                                    !.calls = [@ EXCEPT !.complete = @ + 1, !.tags = @ + 1],
                                    !.log = Append(@, Answered("complete-upload", TRUE))]
            /\ tagReq' = [tagReq EXCEPT ![1] =
                            NewTagReq(flow.rawmodelId[1],
                                      ensureHashTags(flow.contentHash, FileName))]
       ELSE /\ flow' = [flow EXCEPT !.pc = "failed",
                                    !.calls = [@ EXCEPT !.complete = @ + 1],
                                    !.log = Append(@, Answered("complete-upload", FALSE))]
            /\ UNCHANGED tagReq
    /\ error' = Surfaced(ok, "complete-upload")
    /\ UNCHANGED <<catalogVars, fb, resp, hist, statusVars, pollNoError, sessionVars, serviceVars>>

\* ensureHashTags returns, whatever the tag route answered
FlowTagged ==
    /\ flow.pc = "tags"
    /\ tagReq[1].pc = "done"
    /\ flow' = [flow EXCEPT !.pc = IF TagsRethrown(tagReq[1].code) THEN "failed"
                                   ELSE "optimize",
                            !.log = Append(@, Answered("tags", tagReq[1].code = 200))]
    /\ error' = Surfaced(~TagsRethrown(tagReq[1].code), "tags")
    /\ hist' = [hist EXCEPT !.fresh = IF flow.n = 1 /\ tagReq[1].code = 200 /\ hist.untagged
                                      THEN flow.rawmodelId ELSE @]
    /\ tagReq' = [tagReq EXCEPT ![1] = IdleTagReq]
    /\ UNCHANGED <<catalogVars, fb, resp, statusVars, pollNoError, sessionVars, serviceVars>>

\* POST /api/optimize is answered; on success pollStatus is entered and
\* sends its first status request
FlowOptimize(ok) ==
    /\ flow.pc = "optimize"
    /\ flow' = [flow EXCEPT
                  !.pc = IF ok THEN "polling" ELSE "failed",
                  !.log = IF ok THEN @ \o <<Answered("optimize", TRUE), Answered("status", TRUE)>>
                          ELSE Append(@, Answered("optimize", FALSE))]
    /\ error' = Surfaced(ok, "optimize")
    /\ UNCHANGED <<catalogVars, routeVars, hist, statusVars, pollNoError, sessionVars, serviceVars>>

\* the tags an asset may carry before the first flow
PreTags ==
    { <<>>, <<P_sha256 \o HashA>>, ensureHashTags(HashA, FileName),
      ensureHashTags(HashB, FileName) }

\* tag lists that hold a variant of HashA in another case, and as part of
\* a longer tag only
NearTags ==
    { << <<"S","H","A","2","5","6","-">> \o HashA >>,
      << P_sha256 \o HashA \o <<"0">> >> }

\* a catalog of one asset with one of the tag lists, before the first flow
InitDedupOver(tagLists) ==
    /\ \E shape \in {<<2, 1>>, <<CatalogPages, ScanPages>>, <<CatalogPages, CatalogPages>>} :
          /\ nPages = shape[1]
          /\ assetPage = [a \in AssetIds |-> IF a = 1 THEN shape[2] ELSE 0]
    /\ \E t \in tagLists : assetTags = [a \in AssetIds |-> IF a = 1 THEN t ELSE <<>>]
    /\ fb = IdleLookup
    /\ tagReq = [sl \in Slots |-> IdleTagReq]
    /\ resp = NoResponse
    /\ flow = IdleFlow
    /\ hist = NoHist

InitDedup == InitDedupOver(PreTags)

ParkDedup ==
    /\ nPages = 0
    /\ assetPage = [a \in AssetIds |-> 0]
    /\ assetTags = [a \in AssetIds |-> <<>>]
    /\ fb = IdleLookup
    /\ tagReq = [sl \in Slots |-> IdleTagReq]
    /\ resp = NoResponse
    /\ flow = [IdleFlow EXCEPT !.pc = "parked"]
    /\ hist = NoHist

(***************************************************************************)
(* Tag-merge requests from any client                                      *)
(***************************************************************************)
MaxTagPosts == 3       \* tag-merge requests per model run
TagAsset == 1

T_x == <<"x">>
T_a == P_sha256 \o <<"a">>
T_b == P_hash \o <<"a">>

IncomingLists == { <<>>, <<T_a>>, <<T_b>>, <<T_a, T_b>>, <<T_b, T_b, T_x>> }

InitTags ==
    /\ nPages = 1
    /\ assetPage = [a \in AssetIds |-> IF a = TagAsset THEN 1 ELSE 0]
    /\ \E t \in {<<>>, <<T_x>>, <<T_x, T_a>>} :
          /\ assetTags = [a \in AssetIds |-> IF a = TagAsset THEN t ELSE <<>>]
          /\ hist = [NoHist EXCEPT !.tags0 = t]
    /\ fb = IdleLookup
    /\ tagReq = [sl \in Slots |-> IdleTagReq]
    /\ resp = NoResponse
    /\ flow = [IdleFlow EXCEPT !.pc = "parked"]

\* a client posts tags for the asset; requests may overlap
TagPost(slot, incoming) ==
    /\ flow.pc = "parked"
    /\ tagReq[slot].pc = "idle"
    /\ hist.posts < MaxTagPosts
    /\ tagReq' = [tagReq EXCEPT ![slot] = NewTagReq(TagAsset, incoming)]
    /\ hist' = [hist EXCEPT
                  !.posts = @ + 1,
                  !.overlap = @ \/ \E o \in Slots \ {slot} : tagReq[o].pc \in {"read", "write"}]
    /\ UNCHANGED <<catalogVars, fb, resp, flow, statusVars, pollVars, sessionVars, serviceVars>>

\* res.json(out) / res.status(500): the request is over
TagAnswered(slot) ==
    /\ flow.pc = "parked"
    /\ tagReq[slot].pc = "done"
    /\ tagReq' = [tagReq EXCEPT ![slot] = IdleTagReq]
    /\ UNCHANGED <<catalogVars, fb, resp, flowVars, statusVars, pollVars, sessionVars, serviceVars>>

NextTags ==
    \/ \E slot \in Slots, incoming \in IncomingLists : TagPost(slot, incoming)
    \/ \E slot \in Slots, ok \in BOOLEAN : TagRead(slot, ok)
    \/ \E slot \in Slots, ok \in BOOLEAN : TagWrite(slot, ok)
    \/ \E slot \in Slots : TagAnswered(slot)

NextFlow ==
    \/ FlowStart
    \/ FindWithoutHash
    \/ SearchPageFail
    \/ \E page \in QueryPages : SearchPageOk(page)
    \/ ScanPageFail
    \/ ScanPageOk
    \/ FindAnswer
    \/ StartAnswerHit
    \/ \E outcome \in SessionOutcomes : StartSession(outcome)
    \/ \E ok \in BOOLEAN : Transfer(ok)
    \/ \E ok \in BOOLEAN : Complete(ok)
    \/ \E ok \in BOOLEAN : TagRead(1, ok)
    \/ \E ok \in BOOLEAN : TagWrite(1, ok)
    \/ FlowTagged
    \/ \E ok \in BOOLEAN : FlowOptimize(ok)

NextLookup ==
    \/ FlowStart
    \/ SearchPageFail
    \/ \E page \in QueryPages : SearchPageOk(page)
    \/ ScanPageFail
    \/ ScanPageOk
    \/ FindAnswer

(***************************************************************************)
(* App.vue: startFlow, cancel and the poll loops of one page               *)
(* Every flow started runs its own pollStatus call; all of them test the   *)
(* one module-level flag `stop`.  A loop record keeps the position of the  *)
(* flow (pre: the steps before pollStatus, fetch: a status request is in   *)
(* flight, sleep: between ticks, done: startFlow returned) and whether     *)
(* cancel() was pressed while it ran and a request followed.               *)
(***************************************************************************)
MaxLoops == 2          \* flows started per model run
MaxRequests == 4       \* status requests per model run

NewLoop == [pc |-> "pre", cancelled |-> FALSE, requestAfterCancel |-> FALSE]

ParkSession == session = [busy |-> FALSE, loops |-> <<>>]

\* a status request goes out for loop l
Requesting(l) == [l EXCEPT !.pc = "fetch", !.requestAfterCancel = l.cancelled]

\* the button 'Upload / Optimize' (enabled while !busy) runs startFlow:
\* stop = false, busy = true, then the upload steps
SessionStartFlow ==
    /\ ~session.busy
    /\ Len(session.loops) < MaxLoops
    /\ stop' = FALSE
    /\ session' = [busy |-> TRUE, loops |-> Append(session.loops, NewLoop)]
    /\ UNCHANGED <<state, poll, error, downloads, rapidmodelId, localStorage, clock,
                   nudges, ticks, lastStage, statusVars, dedupVars, serviceVars>>

\* a step of startFlow before pollStatus throws: catch, finally busy = false
SessionFlowFails(i) ==
    /\ i \in DOMAIN session.loops
    /\ session.loops[i].pc = "pre"
    /\ session' = [busy |-> FALSE,
                   loops |-> [session.loops EXCEPT ![i].pc = "done"]]
    /\ error' = Some("flow failed")
    /\ UNCHANGED <<state, poll, stop, downloads, rapidmodelId, localStorage, clock,
                   nudges, ticks, lastStage, statusVars, dedupVars, serviceVars>>

\* startFlow reaches pollStatus: the UI state is reset and while (!stop) is
\* tested; a set flag ends pollStatus and startFlow (finally busy = false)
SessionPollEnter(i) ==
    /\ i \in DOMAIN session.loops
    /\ session.loops[i].pc = "pre"
    /\ ticks < MaxRequests
    /\ state' = IdleState
    /\ IF stop
       THEN /\ session' = [busy |-> FALSE,
                           loops |-> [session.loops EXCEPT ![i].pc = "done"]]
            /\ ticks' = ticks
       ELSE /\ session' = [session EXCEPT !.loops[i] = Requesting(session.loops[i])]
            /\ ticks' = ticks + 1
    /\ UNCHANGED <<poll, stop, error, downloads, rapidmodelId, localStorage, clock,
                   nudges, lastStage, statusVars, dedupVars, serviceVars>>

\* the status response of loop i arrives: the loop writes state and either
\* breaks (ready with downloads, error) or goes to sleep
SessionTick(i, stage, ends) ==
    /\ i \in DOMAIN session.loops
    /\ session.loops[i].pc = "fetch"
    /\ ends => stage = "ready"
    /\ state' = [state EXCEPT !.stage = stage]
    /\ IF ends
       THEN session' = [busy |-> FALSE,
                        loops |-> [session.loops EXCEPT ![i].pc = "done"]]
       ELSE session' = [session EXCEPT !.loops[i].pc = "sleep"]
    /\ UNCHANGED <<poll, stop, error, downloads, rapidmodelId, localStorage, clock,
                   nudges, ticks, lastStage, statusVars, dedupVars, serviceVars>>

\* the sleep of loop i ends: while (!stop) is tested, then the next request
SessionWake(i) ==
    /\ i \in DOMAIN session.loops
    /\ session.loops[i].pc = "sleep"
    /\ ticks < MaxRequests
    /\ IF stop
       THEN /\ session' = [busy |-> FALSE,
                           loops |-> [session.loops EXCEPT ![i].pc = "done"]]
            /\ ticks' = ticks
       ELSE /\ session' = [session EXCEPT !.loops[i] = Requesting(session.loops[i])]
            /\ ticks' = ticks + 1
    /\ UNCHANGED <<state, poll, stop, error, downloads, rapidmodelId, localStorage,
                   clock, nudges, lastStage, statusVars, dedupVars, serviceVars>>

\* the button 'Cancel' (enabled while busy) runs cancel(): stop = true,
\* busy = false
SessionCancel ==
    /\ session.busy
    /\ stop' = TRUE
    /\ session' = [busy |-> FALSE,
                   loops |-> [i \in DOMAIN session.loops |->
                                IF session.loops[i].pc = "done" THEN session.loops[i]
                                ELSE [session.loops[i] EXCEPT !.cancelled = TRUE]]]
    /\ UNCHANGED <<state, poll, error, downloads, rapidmodelId, localStorage, clock,
                   nudges, ticks, lastStage, statusVars, dedupVars, serviceVars>>

NextLoops ==
    \/ SessionStartFlow
    \/ \E i \in 1..MaxLoops : SessionFlowFails(i)
    \/ \E i \in 1..MaxLoops : SessionPollEnter(i)
    \/ \E i \in 1..MaxLoops, stage \in {"queued", "processing", "ready"}, ends \in BOOLEAN :
          SessionTick(i, stage, ends)
    \/ \E i \in 1..MaxLoops : SessionWake(i)
    \/ SessionCancel

(***************************************************************************)
(* POST /api/optimize                                                      *)
(***************************************************************************)
MaxOptimizePosts == 2  \* optimize requests per model run

DEFAULT_PRESET_ID == 9547

\* Number.isFinite(Number(presetId)) ? Number(presetId) : DEFAULT_PRESET_ID
effectivePresetId(presetId) ==
    IF presetId.k = "num" THEN presetId ELSE Num(DEFAULT_PRESET_ID)

\* the candidate payloads, in the order they are pushed
bodies(preset, presetKey) ==
    (IF preset.k = "num" THEN <<"preset_id", "config.preset_id">> ELSE <<>>)
    \o (IF presetKey # None THEN <<"preset_key", "config.preset_key">> ELSE <<>>)
    \o <<"no preset">>

\* a loop that remembers the first rejection only
KeepFirstErr(lastErr, shape) == IF lastErr = None THEN Some(shape) ELSE lastErr

\* catch (e) { lastErr = e; }
KeepErr(lastErr, shape) == Some(shape)

IdleOptimize ==
    [pc |-> "idle", n |-> 0, rawmodelId |-> None, preset |-> Num(DEFAULT_PRESET_ID),
     presetKey |-> None, bodies |-> <<>>, i |-> 0, lastErr |-> None,
     code |-> 0, out |-> None, err |-> None,
     sent |-> <<>>]      \* history: the payloads sent and what the upstream said

ParkOptimize == opt = [IdleOptimize EXCEPT !.pc = "parked"]

Sent(shape, answer) == [shape |-> shape, answer |-> answer]

\* the route is entered: 400 without a rawmodelId, otherwise the candidate
\* list is built and the first payload is sent
OptimizePost(rawmodelId, presetId, presetKey) ==
    /\ opt.pc \in {"idle", "answered"}
    /\ opt.n < MaxOptimizePosts
    /\ LET preset == effectivePresetId(presetId)
           bs == bodies(preset, presetKey)
           fresh == [IdleOptimize EXCEPT !.n = opt.n + 1, !.rawmodelId = rawmodelId,
                                         !.preset = preset, !.presetKey = presetKey]
       IN  opt' = IF rawmodelId = None
                  THEN [fresh EXCEPT !.pc = "answered", !.code = 400,
                                     !.err = Some("rawmodelId required")]
                  ELSE [fresh EXCEPT !.pc = "sending", !.bodies = bs, !.i = 1,
                                     !.sent = <<Sent(bs[1], "pending")>>]
    /\ UNCHANGED <<proxy, legacy, publicApp, poller, statusVars, pollVars, dedupVars, sessionVars>>

\* the upstream answers the payload in flight: accepted ends the route with
\* its result; rejected moves on to the next payload, or throws lastErr
OptimizeUpstream(ok) ==
    /\ opt.pc = "sending"
    /\ LET shape == opt.bodies[opt.i]
           lastErr == KeepErr(opt.lastErr, shape)
           told == [opt.sent EXCEPT ![opt.i] = Sent(shape, IF ok THEN "accepted" ELSE "rejected")]
       IN  opt' = IF ok
                  THEN [opt EXCEPT !.pc = "answered", !.code = 200, !.out = Some(shape),
                                   !.sent = told]
                  ELSE IF opt.i < Len(opt.bodies)
                  THEN [opt EXCEPT !.i = @ + 1, !.lastErr = lastErr,
                                   !.sent = Append(told, Sent(opt.bodies[opt.i + 1], "pending"))]
                  ELSE [opt EXCEPT !.pc = "answered", !.code = 500, !.lastErr = lastErr,
                                   !.err = lastErr, !.sent = told]
    /\ UNCHANGED <<proxy, legacy, publicApp, poller, statusVars, pollVars, dedupVars, sessionVars>>

\* what the browser may post
OptimizeRequests ==
    { <<r, p, k>> : r \in {None, Some(1), Some(2)},
                    p \in {AbsentNum, TextNum, Num(12)},
                    k \in {None, Some("key")} }

NextOptimize ==
    \/ \E rq \in OptimizeRequests : OptimizePost(rq[1], rq[2], rq[3])
    \/ \E ok \in BOOLEAN : OptimizeUpstream(ok)

(***************************************************************************)
(* GET /api/proxy-download                                                 *)
(* The escapes the model knows are %25, %3A and %2F; any other "%" is      *)
(* malformed and makes decodeURIComponent throw.                           *)
(***************************************************************************)
MaxDepth == 6          \* how many times a parameter may be encoded

maxAttempts == 5

\* the character an escape stands for, "" if the model has no such escape
Unescape(pair) ==
    CASE pair = <<"2","5">> -> "%"
      [] pair = <<"3","A">> -> ":"
      [] pair = <<"2","F">> -> "/"
      [] OTHER -> ""

\* decodeURIComponent(s): ok is FALSE where it throws URIError
RECURSIVE decodeURIComponent(_)
decodeURIComponent(s) ==
    IF s = <<>> THEN [ok |-> TRUE, v |-> <<>>]
    ELSE IF Head(s) # "%"
         THEN LET rest == decodeURIComponent(Tail(s))
              IN  [ok |-> rest.ok, v |-> IF rest.ok THEN <<Head(s)>> \o rest.v ELSE <<>>]
    ELSE IF Len(s) < 3 \/ Unescape(SubSeq(s, 2, 3)) = ""
         THEN [ok |-> FALSE, v |-> <<>>]
    ELSE LET rest == decodeURIComponent(SubSeq(s, 4, Len(s)))
         IN  [ok |-> rest.ok,
              v |-> IF rest.ok THEN <<Unescape(SubSeq(s, 2, 3))>> \o rest.v ELSE <<>>]

\* encodeURIComponent(s) on the model's alphabet
RECURSIVE encodeURIComponent(_)
encodeURIComponent(s) ==
    IF s = <<>> THEN <<>>
    ELSE (CASE Head(s) = "%" -> <<"%","2","5">>
            [] Head(s) = ":" -> <<"%","3","A">>
            [] Head(s) = "/" -> <<"%","2","F">>
            [] OTHER -> <<Head(s)>>) \o encodeURIComponent(Tail(s))

RECURSIVE EncodedTimes(_, _)
EncodedTimes(k, s) == IF k = 0 THEN s ELSE EncodedTimes(k - 1, encodeURIComponent(s))

\* a loop that goes on until the string is stable, however long that takes
KeepDecodingUncapped(decodedUrl, previousUrl, attempts) == decodedUrl # previousUrl

\* while (decodedUrl !== previousUrl && attempts < maxAttempts)
KeepDecoding(decodedUrl, previousUrl, attempts) ==
    decodedUrl # previousUrl /\ attempts < maxAttempts

\* the decode loop; calls counts the decodeURIComponent calls made
RECURSIVE DecodeLoop(_, _, _, _)
DecodeLoop(decodedUrl, previousUrl, attempts, calls) ==
    IF KeepDecoding(decodedUrl, previousUrl, attempts)
    THEN LET d == decodeURIComponent(decodedUrl)
         IN  IF d.ok
             THEN DecodeLoop(d.v, decodedUrl, attempts + 1, calls + 1)
             ELSE [decodedUrl |-> decodedUrl, attempts |-> attempts, calls |-> calls + 1,
                   threw |-> TRUE]
    ELSE [decodedUrl |-> decodedUrl, attempts |-> attempts, calls |-> calls, threw |-> FALSE]

\* decodedUrl.match(/^https?:\/\//)
MatchesHttp(s) ==
    \/ StartsWith(s, <<"h","t","t","p",":","/","/">>)
    \/ StartsWith(s, <<"h","t","t","p","s",":","/","/">>)

\* the values of req.query.url the model sends: a target, encoded some number
\* of times, possibly with a malformed escape at its end
ProxyTargets ==
    { <<"h","t","t","p",":","/","/","x">>, <<"h","t","t","p","s",":","/","/","x">>,
      <<"f","t","p",":","/","/","x">>, <<"H","T","T","P",":","/","/","x">>,
      <<"h","t","t","p",":","/","x">>, <<"x">> }

ProxyUrls ==
    { EncodedTimes(k, t) \o tail : k \in 0..MaxDepth, t \in ProxyTargets,
                                   tail \in {<<>>, <<"%">>, <<"%","2">>} }
    \cup {<<>>}

IdleProxy ==
    [pc |-> "idle", url |-> <<>>, decodedUrl |-> <<>>, attempts |-> 0, code |-> 0,
     calls |-> 0,        \* history: decodeURIComponent calls of the request
     threw |-> FALSE,    \* history: the last of them threw
     fetched |-> None]   \* history: the outbound request, if one was made

ParkProxy == proxy = [IdleProxy EXCEPT !.pc = "parked"]

\* the route is entered: 400 on an empty parameter, the decode loop, 400 on
\* a result that is no http(s) URL, otherwise the outbound fetch is made
ProxyGet(url) ==
    /\ proxy.pc \in {"idle", "answered"}
    /\ LET r == DecodeLoop(url, <<>>, 0, 0)
           seen == [IdleProxy EXCEPT !.url = url, !.decodedUrl = r.decodedUrl,
                                     !.attempts = r.attempts, !.calls = r.calls,
                                     !.threw = r.threw]
       IN  proxy' = IF url = <<>>
                    THEN [IdleProxy EXCEPT !.pc = "answered", !.code = 400]
                    ELSE IF ~MatchesHttp(r.decodedUrl)
                    THEN [seen EXCEPT !.pc = "answered", !.code = 400]
                    ELSE [seen EXCEPT !.pc = "fetching", !.fetched = Some(r.decodedUrl)]
    /\ UNCHANGED <<opt, legacy, publicApp, poller, statusVars, pollVars, dedupVars, sessionVars>>

\* the outbound fetch ends: the bytes are sent, or 502 on a non-2xx answer,
\* or 500 when the fetch threw
ProxyUpstream(outcome) ==
    /\ proxy.pc = "fetching"
    /\ proxy' = [proxy EXCEPT !.pc = "answered",
                              !.code = CASE outcome = "ok" -> 200
                                         [] outcome = "refused" -> 502
                                         [] OTHER -> 500]
    /\ UNCHANGED <<opt, legacy, publicApp, poller, statusVars, pollVars, dedupVars, sessionVars>>

NextProxy ==
    \/ \E url \in ProxyUrls : ProxyGet(url)
    \/ \E outcome \in {"ok", "refused", "threw"} : ProxyUpstream(outcome)

(***************************************************************************)
(* server.js: searchByQ / scanAllPagesForTag / findByHash                  *)
(* The catalog is a set of pages; each page holds one asset's tag list and *)
(* a continuation link (0: none), so the links may form a cycle.           *)
(***************************************************************************)
LinkedPages == 1..2

\* the catalogs the upstream may serve
LinkedCatalogs ==
    { [links |-> l, tags |-> t] :
        l \in [LinkedPages -> {0} \cup LinkedPages],
        t \in [LinkedPages -> {<<>>, <<P_sha256 \o HashA>>, <<P_hash \o HashA>>}] }

\* findByHash: tagSafe, hash, tagColon for searchByQ
ServerQueries(hash) == <<P_sha256 \o hash, hash, P_hash \o hash>>

\* findByHash: tagSafe.toLowerCase(), tagColon.toLowerCase() for the scans
ServerScans(hash) == <<ToLowerCase(P_sha256 \o hash), ToLowerCase(P_hash \o hash)>>

\* the tag the search in progress looks for
ServerVariant(f) ==
    IF f.pc = "scan" THEN ServerScans(f.hash)[f.i] ELSE ServerQueries(f.hash)[f.i]

IdleServerLookup(catalog) ==
    [pc |-> "idle", catalog |-> catalog, hash |-> <<>>, i |-> 0, next |-> 0,
     result |-> None]

ParkLegacy ==
    legacy = [IdleServerLookup([links |-> [pg \in LinkedPages |-> 0],
                                tags |-> [pg \in LinkedPages |-> <<>>]])
              EXCEPT !.pc = "parked"]

\* a search returned null: the next query, the scans, or return null
ServerNoHit(f) ==
    IF f.pc = "search"
    THEN IF f.i < Len(ServerQueries(f.hash))
         THEN [f EXCEPT !.i = f.i + 1, !.next = 1]
         ELSE [f EXCEPT !.pc = "scan", !.i = 1, !.next = 1]
    ELSE IF f.i < Len(ServerScans(f.hash))
         THEN [f EXCEPT !.i = f.i + 1, !.next = 1]
         ELSE [f EXCEPT !.pc = "done", !.result = None]

\* findByHash(hash) is called: searchByQ(tagSafe) requests its first page
ServerFindByHash ==
    /\ legacy.pc = "idle"
    /\ legacy' = [legacy EXCEPT !.pc = "search", !.hash = HashA, !.i = 1, !.next = 1]
    /\ UNCHANGED <<opt, proxy, publicApp, poller, statusVars, pollVars, dedupVars, sessionVars>>

\* rpSafe answered with an error: the search returns null
ServerPageFail ==
    /\ legacy.pc \in {"search", "scan"}
    /\ legacy' = ServerNoHit(legacy)
    /\ UNCHANGED <<opt, proxy, publicApp, poller, statusVars, pollVars, dedupVars, sessionVars>>

\* rpSafe answered with a page: return the item with the tag, or follow
\* links.next while (next)
ServerPageOk ==
    /\ legacy.pc \in {"search", "scan"}
    /\ LET tags == legacy.catalog.tags[legacy.next]
           n == legacy.catalog.links[legacy.next]
       IN  legacy' = IF tagMatches(tags, ServerVariant(legacy))
                     THEN [legacy EXCEPT !.pc = "done", !.result = Some(legacy.next)]
                     ELSE IF n # 0
                     THEN [legacy EXCEPT !.next = n]
                     ELSE ServerNoHit(legacy)
    /\ UNCHANGED <<opt, proxy, publicApp, poller, statusVars, pollVars, dedupVars, sessionVars>>

NextServerLookup ==
    \/ ServerFindByHash
    \/ ServerPageFail
    \/ ServerPageOk

(***************************************************************************)
(* public/app.js: handleChosenFile and processFile                         *)
(* The waits poll the backend; `waited` is Date.now() - t0 at the head of  *)
(* the wait loop.  One iteration (request and sleep) takes one of the      *)
(* durations in WaitSteps.                                                 *)
(***************************************************************************)
MaxPagePolls == 4      \* unfinished polls followed per wait
WaitSteps == {10000, 450000}

\* timeoutMs of ensureAnalyzed and maxWaitMs of the two GLB waits
AnalyzeTimeoutMs == 10 * 60 * 1000
OptimizeMaxWaitMs == 20 * 60 * 1000
ConvertMaxWaitMs == 15 * 60 * 1000

\* setStatus(msg, isError); prefix is "Error: " for the message of a caught error
Status(msg, isError) == [prefix |-> "", msg |-> msg, isError |-> isError]

IdlePage ==
    [pc |-> "idle", waited |-> 0, polls |-> 0, wasOptimized |-> TRUE,
     status |-> Status("", FALSE), progress |-> 0, linkText |-> "",
     raised |-> {},       \* history: the messages of the errors thrown
     timedOut |-> {},     \* history: the waits that ran out of time
     tagsFailed |-> FALSE,\* history: the addTags request failed
     log |-> <<>>]        \* history: the phases begun, in order

ParkPage == publicApp = [IdlePage EXCEPT !.pc = "parked"]

\* processFile rejects with the error and the catch of handleChosenFile
\* shows it
Rejected(pg, msg) ==
    [pg EXCEPT !.pc = "failed", !.raised = @ \cup {msg},
               !.status = [prefix |-> "Error: ", msg |-> msg, isError |-> TRUE]]

\* beginPhase(name, ...)
BeginPhase(pg, name) == [pg EXCEPT !.log = Append(@, name)]

\* handleChosenFile accepts the file; processFile computes the hash and
\* sends GET /api/find-by-hash
PageChoose ==
    /\ publicApp.pc = "idle"
    /\ publicApp' = [publicApp EXCEPT !.pc = "find", !.progress = 5,
                            !.status = Status("Computing file hash...", FALSE)]
    /\ UNCHANGED <<opt, proxy, legacy, poller, statusVars, pollVars, dedupVars, sessionVars>>

\* the analysis phase begins; on the path that found the asset at once the
\* status line keeps "Found existing asset"
ToAnalyze(pg, found) ==
    BeginPhase([pg EXCEPT !.pc = "analyze", !.waited = 0, !.polls = 0, !.progress = 45,
                          !.status = Status(IF found THEN "Found existing asset. Skipping upload..."
                                            ELSE "Analyzing model...", FALSE)],
               "analyze")

\* find-by-hash is answered
PageFind(outcome) ==
    /\ publicApp.pc = "find"
    /\ publicApp' = CASE outcome = "found" -> ToAnalyze(publicApp, TRUE)
                 [] outcome = "miss" ->
                       BeginPhase([publicApp EXCEPT !.pc = "start", !.progress = 10,
                                               !.status = Status("Starting upload...", FALSE)],
                                  "upload")
                 [] OTHER -> Rejected(publicApp, "request failed")
    /\ UNCHANGED <<opt, proxy, legacy, poller, statusVars, pollVars, dedupVars, sessionVars>>

\* start-upload is answered
PageStartUpload(outcome) ==
    /\ publicApp.pc = "start"
    /\ publicApp' = CASE outcome = "exists" -> ToAnalyze(publicApp, FALSE)
                 [] outcome = "nourl" -> Rejected(publicApp, "No signed upload URL returned")
                 [] outcome = "ok" ->
                       [publicApp EXCEPT !.pc = "transfer", !.progress = 30,
                                    !.status = Status("Uploading file...", FALSE)]
                 [] OTHER -> Rejected(publicApp, "request failed")
    /\ UNCHANGED <<opt, proxy, legacy, poller, statusVars, pollVars, dedupVars, sessionVars>>

\* the PUT to the signed URL ends
PageTransfer(ok) ==
    /\ publicApp.pc = "transfer"
    /\ publicApp' = IF ok THEN [publicApp EXCEPT !.pc = "complete"]
               ELSE Rejected(publicApp, "Upload failed")
    /\ UNCHANGED <<opt, proxy, legacy, poller, statusVars, pollVars, dedupVars, sessionVars>>

\* complete-upload is answered
PageComplete(ok) ==
    /\ publicApp.pc = "complete"
    /\ publicApp' = IF ok THEN [publicApp EXCEPT !.pc = "tags"]
               ELSE Rejected(publicApp, "request failed")
    /\ UNCHANGED <<opt, proxy, legacy, poller, statusVars, pollVars, dedupVars, sessionVars>>

\* await addTags(...): backend() throws on a response that is not ok
AfterTags(pg, ok) ==
    IF ok THEN ToAnalyze(pg, FALSE)
    ELSE Rejected([pg EXCEPT !.tagsFailed = TRUE], "request failed")

\* the tags request is answered
PageAddTags(ok) ==
    /\ publicApp.pc = "tags"
    /\ publicApp' = AfterTags(publicApp, ok)
    /\ UNCHANGED <<opt, proxy, legacy, poller, statusVars, pollVars, dedupVars, sessionVars>>

\* ensureAnalyzed has returned (true or false: processFile does not look at
\* the value) and the optimize request is sent
ToOptimize(pg) ==
    [pg EXCEPT !.pc = "optimize", !.progress = 55,
               !.status = Status("Optimizing with preset...", FALSE)]

\* ensureAnalyzed: the loop condition fails and the function returns false
AnalyzeTimedOut(pg) == ToOptimize([pg EXCEPT !.timedOut = @ \cup {"analyze"}])

\* ensureAnalyzed: one getRawmodel request and what follows it
PageAnalyzePoll(outcome, dt) ==
    /\ publicApp.pc = "analyze"
    /\ publicApp' = CASE outcome = "done" -> ToOptimize(publicApp)
                 [] outcome = "fail" -> Rejected(publicApp, "request failed")
                 [] OTHER ->
                       IF publicApp.waited + dt < AnalyzeTimeoutMs
                       THEN [publicApp EXCEPT !.waited = @ + dt, !.polls = @ + 1]
                       ELSE AnalyzeTimedOut([publicApp EXCEPT !.waited = @ + dt])
    /\ outcome = "pending" => publicApp.polls < MaxPagePolls
    /\ UNCHANGED <<opt, proxy, legacy, poller, statusVars, pollVars, dedupVars, sessionVars>>

\* the optimize request is answered
PageRequestOptimize(ok) ==
    /\ publicApp.pc = "optimize"
    /\ publicApp' = IF ok
               THEN BeginPhase([publicApp EXCEPT !.pc = "waitOptimized", !.waited = 0,
                                            !.polls = 0, !.progress = 70,
                                            !.status = Status("Waiting for optimized GLB...", FALSE)],
                               "optimize")
               ELSE Rejected(publicApp, "request failed")
    /\ UNCHANGED <<opt, proxy, legacy, poller, statusVars, pollVars, dedupVars, sessionVars>>

\* the download phase begins
ToDownload(pg) ==
    BeginPhase([pg EXCEPT !.pc = "download", !.progress = 90,
                          !.status = Status("Downloading processed model...", FALSE)],
               "download")

\* catch { wasOptimized = false; ... }: the conversion is requested
ToConvert(pg, msg) ==
    BeginPhase([pg EXCEPT !.pc = "addFormats", !.wasOptimized = FALSE,
                          !.raised = @ \cup {msg},
                          !.status = Status("Optimization failed - converting to GLB...", TRUE)],
               "convert")

\* setProgress(Math.min(cap, elapsed / maxWaitMs * 100)), in whole percent
WaitProgress(cap, elapsed, maxWaitMs) == Min2(cap, (elapsed * 100) \div maxWaitMs)

\* waitForOptimizedGLB: one listRapidModels request and what follows it
PageOptimizedPoll(outcome, dt) ==
    /\ publicApp.pc = "waitOptimized"
    /\ publicApp' = CASE outcome = "glb" -> ToDownload(publicApp)
                 [] outcome = "error" -> ToConvert(publicApp, "Optimization error")
                 [] outcome = "fail" -> ToConvert(publicApp, "request failed")
                 [] OTHER ->
                       LET pg == [publicApp EXCEPT !.waited = @ + dt, !.polls = @ + 1,
                                              !.progress = WaitProgress(90, publicApp.waited + dt,
                                                                        OptimizeMaxWaitMs)]
                       IN IF pg.waited < OptimizeMaxWaitMs THEN pg
                          ELSE ToConvert([pg EXCEPT !.timedOut = @ \cup {"optimize"}],
                                         "Optimization timeout")
    /\ outcome = "pending" => publicApp.polls < MaxPagePolls
    /\ UNCHANGED <<opt, proxy, legacy, poller, statusVars, pollVars, dedupVars, sessionVars>>

\* waitForConvertedGLB: await addFormats(rawmodelId)
PageAddFormats(ok) ==
    /\ publicApp.pc = "addFormats"
    /\ publicApp' = IF ok THEN [publicApp EXCEPT !.pc = "waitConverted", !.waited = 0, !.polls = 0]
               ELSE Rejected(publicApp, "request failed")
    /\ UNCHANGED <<opt, proxy, legacy, poller, statusVars, pollVars, dedupVars, sessionVars>>

\* waitForConvertedGLB: one rawDownloads request and what follows it
PageConvertedPoll(outcome, dt) ==
    /\ publicApp.pc = "waitConverted"
    /\ publicApp' = CASE outcome = "glb" -> ToDownload(publicApp)
                 [] outcome = "fail" -> Rejected(publicApp, "request failed")
                 [] OTHER ->
                       LET pg == [publicApp EXCEPT !.waited = @ + dt, !.polls = @ + 1,
                                              !.progress = WaitProgress(85, publicApp.waited + dt,
                                                                        ConvertMaxWaitMs)]
                       IN IF pg.waited < ConvertMaxWaitMs THEN pg
                          ELSE Rejected([pg EXCEPT !.timedOut = @ \cup {"convert"}],
                                        "Conversion timeout")
    /\ outcome = "pending" => publicApp.polls < MaxPagePolls
    /\ UNCHANGED <<opt, proxy, legacy, poller, statusVars, pollVars, dedupVars, sessionVars>>

\* the proxy-download fetch ends
PageDownload(ok) ==
    /\ publicApp.pc = "download"
    /\ publicApp' = IF ok
               THEN [publicApp EXCEPT !.pc = "done", !.progress = 100,
                                 !.linkText = IF publicApp.wasOptimized THEN "Download Optimized GLB"
                                              ELSE "Download GLB (converted)",
                                 !.status = Status("Processing complete - starting download...", FALSE)]
               ELSE Rejected(publicApp, "Download failed")
    /\ UNCHANGED <<opt, proxy, legacy, poller, statusVars, pollVars, dedupVars, sessionVars>>

NextPageFlow ==
    \/ PageChoose
    \/ \E outcome \in {"found", "miss", "fail"} : PageFind(outcome)
    \/ \E outcome \in {"exists", "nourl", "ok", "fail"} : PageStartUpload(outcome)
    \/ \E ok \in BOOLEAN : PageTransfer(ok)
    \/ \E ok \in BOOLEAN : PageComplete(ok)
    \/ \E ok \in BOOLEAN : PageAddTags(ok)
    \/ \E outcome \in {"done", "fail", "pending"}, dt \in WaitSteps : PageAnalyzePoll(outcome, dt)
    \/ \E ok \in BOOLEAN : PageRequestOptimize(ok)
    \/ \E outcome \in {"glb", "error", "fail", "pending"}, dt \in WaitSteps :
          PageOptimizedPoll(outcome, dt)
    \/ \E ok \in BOOLEAN : PageAddFormats(ok)
    \/ \E outcome \in {"glb", "fail", "pending"}, dt \in WaitSteps : PageConvertedPoll(outcome, dt)
    \/ \E ok \in BOOLEAN : PageDownload(ok)

(***************************************************************************)
(* utils/statusPoller.ts: pollStatus                                       *)
(* emaSpeed is kept as "zero or positive" only, which is all the loop      *)
(* tests; the ETA text is kept by its kind.                                *)
(***************************************************************************)
MaxPollerTicks == 7    \* status requests per model run

\* the fields of a status answer the poller reads
PollerBodies == { [stage |-> b.stage, progress |-> b.progress] : b \in PollResponses }

\* the argument of onUpdate
Update(progress, stage, etaText, indeterminate) ==
    [progress |-> progress, stage |-> stage, etaText |-> etaText,
     indeterminate |-> indeterminate]

IdlePoller ==
    [pc |-> "idle", delay |-> 1000, lastProgress |-> 0, emaPositive |-> FALSE,
     flatTicks |-> 0,
     grow |-> FALSE,     \* the delay is raised after the sleep, not before it
     shown |-> None,     \* history: the latest argument of onUpdate
     updates |-> 0,      \* history: onUpdate calls so far
     requests |-> 0]     \* history: status requests so far

ParkPoller == poller = [IdlePoller EXCEPT !.pc = "parked"]

\* Math.min(8000, Math.floor(delay * 1.5))
PollerDelay(delay) == Min2(8000, (delay * 15) \div 10)

\* pollStatus is called: the module variables are reset and the first
\* request is sent
PollerStart ==
    /\ poller.pc = "idle"
    /\ poller' = [IdlePoller EXCEPT !.pc = "fetch", !.requests = 1]
    /\ UNCHANGED <<opt, proxy, legacy, publicApp, statusVars, pollVars, dedupVars, sessionVars>>

\* the fetch or the JSON parse failed (s is null)
PollerTickFail ==
    /\ poller.pc = "fetch"
    /\ poller' = [poller EXCEPT !.pc = "sleep", !.grow = FALSE,
                                !.delay = PollerDelay(poller.delay),
                                !.shown = Some(Update(poller.lastProgress, "unknown", "...", TRUE)),
                                !.updates = @ + 1]
    /\ UNCHANGED <<opt, proxy, legacy, publicApp, statusVars, pollVars, dedupVars, sessionVars>>

\* if (stage === 'ready' || p >= 100) break
PollerBreak(stage, p) == stage = "ready" \/ p >= 100

\* Math.max(0, Math.min(100, Number(s.progress || 0)))
PollerProgress(lastProgress, reported) == Max2(0, Min2(100, reported))

\* the request was answered with a JSON body
PollerTickOk(body) ==
    /\ poller.pc = "fetch"
    /\ LET p == PollerProgress(poller.lastProgress, ProgressOfBody(body))
           stage == StageOfBody(body)
           dp == Max2(0, p - poller.lastProgress)
           flatTicks == IF dp = 0 THEN poller.flatTicks + 1 ELSE 0
           emaPositive == poller.emaPositive \/ dp > 0
           etaText == IF emaPositive /\ p < 100 THEN "countdown" ELSE "Calculating..."
           indeterminate == flatTicks >= 6 /\ p < 100
       IN poller' = [poller EXCEPT !.pc = IF PollerBreak(stage, p) THEN "done" ELSE "sleep",
                                   !.grow = TRUE,
                                   !.lastProgress = p,
                                   !.flatTicks = flatTicks,
                                   !.emaPositive = emaPositive,
                                   !.shown = Some(Update(p, stage, etaText, indeterminate)),
                                   !.updates = @ + 1]
    /\ UNCHANGED <<opt, proxy, legacy, publicApp, statusVars, pollVars, dedupVars, sessionVars>>

\* the sleep ends and the next request is sent
PollerWake ==
    /\ poller.pc = "sleep"
    /\ poller.requests < MaxPollerTicks
    /\ poller' = [poller EXCEPT !.pc = "fetch", !.grow = FALSE,
                                !.delay = IF poller.grow THEN PollerDelay(@) ELSE @,
                                !.requests = @ + 1]
    /\ UNCHANGED <<opt, proxy, legacy, publicApp, statusVars, pollVars, dedupVars, sessionVars>>

NextPoller ==
    \/ PollerStart
    \/ PollerTickFail
    \/ \E body \in PollerBodies : PollerTickOk(body)
    \/ PollerWake

ParkService == ParkProxy /\ ParkLegacy /\ ParkOptimize /\ ParkPage /\ ParkPoller

(***************************************************************************)
(* Specifications                                                          *)
(***************************************************************************)
\* public/app.js: one file chosen, every outcome of every request
StartPage ==
    /\ ParkStatus /\ ParkPoll /\ ParkDedup /\ ParkSession
    /\ ParkProxy /\ ParkLegacy /\ ParkOptimize /\ ParkPoller
    /\ publicApp = IdlePage
SpecPage == StartPage /\ [][NextPageFlow]_vars

\* utils/statusPoller.ts: one pollStatus call against every sequence of
\* status answers and failed requests
StartPoller ==
    /\ ParkStatus /\ ParkPoll /\ ParkDedup /\ ParkSession
    /\ ParkProxy /\ ParkLegacy /\ ParkOptimize /\ ParkPage
    /\ poller = IdlePoller
SpecPoller == StartPoller /\ [][NextPoller]_vars

\* the status route on its own: every upstream snapshot, one request
StartStatus == InitStatus /\ ParkPoll /\ ParkDedup /\ ParkSession /\ ParkService
SpecStatus == StartStatus /\ [][NextStatus]_vars

\* the poll loop of one flow against every sequence of status responses
StartPoll == ParkStatus /\ InitPoll /\ ParkDedup /\ ParkSession /\ ParkService
SpecPoll == StartPoll /\ [][NextPoll]_vars

\* upload flows of one file against an upstream whose calls may fail
StartFlows == ParkStatus /\ ParkPoll /\ InitDedup /\ ParkSession /\ ParkService
SpecFlow == StartFlows /\ [][NextFlow]_vars

\* the lookups of a flow on their own, up to the answer of find-by-hash and
\* the lookup start-upload makes after a miss; every page request sent is
\* answered or fails
StartLookup ==
    ParkStatus /\ ParkPoll /\ InitDedupOver(PreTags \cup NearTags) /\ ParkSession /\ ParkService
SpecLookup == StartLookup /\ [][NextLookup]_vars /\ WF_vars(NextLookup)

\* the poll loop of one flow whose job stays in processing for a long time
SpecStuck == StartPoll /\ [][NextStuck]_vars

\* the poll loop over a failing connection
SpecBackoff == StartPoll /\ [][NextBackoff]_vars

\* the stored averages under updates
StartAvg == ParkStatus /\ InitAvg /\ ParkDedup /\ ParkSession /\ ParkService
SpecAvg == StartAvg /\ [][NextAvg]_vars

\* the flows of one page: start, cancel and the poll loops they leave behind
StartLoops == ParkStatus /\ ParkPoll /\ ParkDedup /\ ParkSession /\ ParkService
SpecLoops == StartLoops /\ [][NextLoops]_vars

\* the optimize route against an upstream that accepts or rejects payloads
StartOptimize ==
    /\ ParkStatus /\ ParkPoll /\ ParkDedup /\ ParkSession /\ ParkProxy /\ ParkLegacy
    /\ ParkPage /\ ParkPoller
    /\ opt = IdleOptimize
SpecOptimize == StartOptimize /\ [][NextOptimize]_vars

\* the download proxy against every parameter of ProxyUrls
StartProxy ==
    /\ ParkStatus /\ ParkPoll /\ ParkDedup /\ ParkSession /\ ParkOptimize /\ ParkLegacy
    /\ ParkPage /\ ParkPoller
    /\ proxy = IdleProxy
SpecProxy == StartProxy /\ [][NextProxy]_vars

\* findByHash of server.js over every linked catalog; every page request
\* sent is answered or fails
StartServerLookup ==
    /\ ParkStatus /\ ParkPoll /\ ParkDedup /\ ParkSession /\ ParkOptimize /\ ParkProxy
    /\ ParkPage /\ ParkPoller
    /\ \E c \in LinkedCatalogs : legacy = IdleServerLookup(c)
SpecServerLookup ==
    StartServerLookup /\ [][NextServerLookup]_vars /\ WF_vars(NextServerLookup)

\* tag-merge requests on one asset, in sequence and overlapping
StartTags == ParkStatus /\ ParkPoll /\ InitTags /\ ParkSession /\ ParkService
SpecTags == StartTags /\ [][NextTags]_vars

(***************************************************************************)
(* Claims about the dedup lookup and the upload flow                       *)
(***************************************************************************)
\* C3: a GET /api/find-by-hash that carries a hash is never answered with a
\* 5xx status, whatever upstream page calls fail: the answer is 200 with
\* found true (and an id) or found false.
C3_FindNever5xx ==
    (resp.route = "find" /\ resp.hashGiven) =>
        /\ resp.code = 200
        /\ resp.found \in BOOLEAN
        /\ resp.found => resp.id # None

\* every upstream call of the lookup failed and the answer was 200, found false
C3_Witness ==
    /\ resp.route = "find" /\ resp.hashGiven
    /\ flow.pc = "start"
    /\ ~hist.lookup.okCalls
    /\ hist.lookup.scanFailed
    /\ resp.code = 200 /\ ~resp.found

\* asset a carries sha256-<h> and no other asset carries a tag that a
\* variant of h matches
OnlyCarrier(a, h) ==
    /\ a \in Existing
    /\ (P_sha256 \o h) \in Range(assetTags[a])
    /\ \A b \in Existing \ {a} :
          /\ \A i \in 1..5 : ~tagMatches(assetTags[b], searchVariants(h)[i])
          /\ \A i \in 1..3 : ~tagMatches(assetTags[b], partialVariants(h)[i])

\* C4 as stated: once an asset carries sha256-<h>, findByHash(h) returns it
\* both when the targeted searches fail or miss and the scans are answered,
\* and when the scans fail and the targeted search lists the asset.
C4_FoundWhicheverStrategyFails ==
    \A a \in AssetIds :
       (fb.pc = "done" /\ OnlyCarrier(a, fb.hash)) =>
           /\ ~fb.scanFailed => fb.result = Some(a)
           /\ a \in fb.listedTagged => fb.result = Some(a)

\* C4 as amended: once an asset carries sha256-<h> (and no other asset
\* carries a tag for h), findByHash(h) returns it when the targeted search
\* for sha256-<h> is answered with a page listing it, and when no scan
\* request fails and the asset lies within the first ScanPages pages of the
\* unfiltered listing.
C4_FoundWithinPageBound ==
    \A a \in AssetIds :
       (fb.pc = "done" /\ OnlyCarrier(a, fb.hash)) =>
           /\ (~fb.scanFailed /\ assetPage[a] <= ScanPages) => fb.result = Some(a)
           /\ a \in fb.listedTagged => fb.result = Some(a)

\* the targeted searches found nothing and the scan found the asset on the
\* last page it reads
C4_Witness ==
    \E a \in AssetIds :
       /\ fb.pc = "done" /\ OnlyCarrier(a, fb.hash)
       /\ fb.via = "scan" /\ fb.result = Some(a)
       /\ assetPage[a] = ScanPages

\* the answer to the second flow's find-by-hash, after a first flow that
\* uploaded the file afresh (no asset tagged for the hash) and whose
\* transfer, completion and tag-merge all succeeded
LaterFind == resp.route = "find" /\ flow.n = 2 /\ hist.fresh # None

NoDuplicates(list) == \A i, j \in DOMAIN list : list[i] = list[j] => i = j

\* C7: two tag-merge requests in sequence with the same incoming list leave
\* the asset with the same tag set as one, and no written tag list holds a
\* tag twice.
C7_MergeIdempotent ==
    /\ \A i \in DOMAIN hist.writes : NoDuplicates(hist.writes[i].after)
    /\ (/\ ~hist.overlap
        /\ Len(hist.writes) = 2
        /\ hist.writes[1].id = hist.writes[2].id
        /\ hist.writes[1].incoming = hist.writes[2].incoming)
       => Range(hist.writes[2].after) = Range(hist.writes[1].after)

\* the list <<hash:a, hash:a, x>> was merged twice in a row into an asset
\* that did not carry hash:a
C7_Witness ==
    /\ ~hist.overlap
    /\ Len(hist.writes) = 2
    /\ hist.writes[1].incoming = <<T_b, T_b, T_x>>
    /\ hist.writes[2].incoming = <<T_b, T_b, T_x>>
    /\ T_b \notin Range(hist.tags0)
    /\ assetTags[TagAsset] = hist.writes[2].after

\* C8: after successful tag-merge requests executed one after another the
\* asset carries every tag it had before and every incoming tag of every
\* request.
C8_MergeKeepsTags ==
    ~hist.overlap =>
        (Range(hist.tags0) \cup hist.merged) \subseteq Range(assetTags[TagAsset])

\* two different lists were merged one after the other into an asset that
\* had tags before
C8_Witness ==
    /\ ~hist.overlap
    /\ Len(hist.writes) = 2
    /\ hist.writes[1].incoming = <<T_a>>
    /\ hist.writes[2].incoming = <<T_b>>
    /\ hist.tags0 = <<T_x>>

\* C9: when two tag-merge requests for the same asset overlap, the asset
\* ends up with the incoming tags of both and all earlier tags, under every
\* interleaving of their reads and writes.
C9_OverlappingMergesKeepTags ==
    (\A sl \in Slots : tagReq[sl].pc \in {"idle", "done"}) =>
        (Range(hist.tags0) \cup hist.merged) \subseteq Range(assetTags[TagAsset])

(***************************************************************************)
(* Claims about the status normalizer                                      *)
(***************************************************************************)
\* the job the route answers about, when it answered from a job
AnsweredJob == stSnap.jobs[Len(stSnap.jobs)]
AnsweredFromJob ==
    stPc = "answered" /\ stSnap.rawOk /\ stSnap.listOk /\ Len(stSnap.jobs) > 0

\* the job's status, lower-cased, an absent status read as the empty string
AnsweredWord ==
    ToLowerCase(IF AnsweredJob.optimization_status = None THEN <<>>
                ELSE AnsweredJob.optimization_status[1])

\* C10: every job status string, compared case-insensitively (an empty or
\* missing one included), is given exactly one stage among queued,
\* processing, ready, error: queued/pending/waiting give queued,
\* processing/running/optimizing give processing, done/completed/finished/
\* ready/success give ready, failed/error/cancelled give error, and every
\* other string gives processing.
C10_StageMappingTotal ==
    AnsweredFromJob =>
        /\ stOut.stage \in {Some("queued"), Some("processing"), Some("ready"), Some("error")}
        /\ AnsweredWord \in {S_queued, S_pending, S_waiting}
              => stOut.stage = Some("queued")
        /\ AnsweredWord \in {S_processing, S_running, S_optimizing}
              => stOut.stage = Some("processing")
        /\ AnsweredWord \in {S_done, S_completed, S_finished, S_ready, S_success}
              => stOut.stage = Some("ready")
        /\ AnsweredWord \in {S_failed, S_error, S_cancelled}
              => stOut.stage = Some("error")
        /\ AnsweredWord \notin {S_queued, S_pending, S_waiting, S_processing, S_running,
                                S_optimizing, S_done, S_completed, S_finished, S_ready,
                                S_success, S_failed, S_error, S_cancelled}
              => stOut.stage = Some("processing")

\* the unmapped word 'Paused' was answered with stage processing
C10_Witness ==
    /\ AnsweredFromJob
    /\ AnsweredJob.optimization_status = Some(<<"P","a","u","s","e","d">>)
    /\ stOut.stage = Some("processing")

\* C11: when a job exists the progress of the status response is an
\* integer fixed by the mapped stage, for every upstream progress value:
\* queued within 20..50, processing within 50..95, ready exactly 100, error
\* exactly 0, and an unrecognized status with no upstream progress gives 60.
C11_ProgressClampedPerStage ==
    AnsweredFromJob =>
        /\ stOut.progress # None
        /\ stOut.stage = Some("queued") => stOut.progress[1] \in 20..50
        /\ stOut.stage = Some("processing") => stOut.progress[1] \in 50..95
        /\ stOut.stage = Some("ready") => stOut.progress[1] = 100
        /\ stOut.stage = Some("error") => stOut.progress[1] = 0
        /\ (SwitchCase(AnsweredWord) = "default" /\ AnsweredJob.progress = AbsentNum)
              => stOut.progress[1] = 60

\* the asset-level download map of the snapshot, as entries
AssetEntries == IF stSnap.rawDownloads = None THEN <<>> ELSE stSnap.rawDownloads[1]

\* an asset-level entry with an http URL
HttpEntry(e) == e.obj = None /\ StartsWith(e.str, S_http)

\* an asset-level key that names neither an error nor a metadata artifact
HasWord(key, w) ==
    \E i \in 1..Len(key) : i + Len(w) - 1 <= Len(key) /\ SubSeq(key, i, i + Len(w) - 1) = w
CleanKey(key) == ~HasWord(key, S_errorWord) /\ ~HasWord(key, S_infoWord)

\* the URLs the response lists
ListedUrls == {stOut.downloads[1][i].url : i \in DOMAIN stOut.downloads[1]}

\* C12: when the latest job is ready and its own download payload yields no
\* download, the response lists the asset-level entries that have an http
\* URL and leaves out every asset-level entry whose key contains "error" or
\* "info"; when the job's payload yields downloads, those are listed.
C12_FallbackSkipsNoise ==
    (AnsweredFromJob /\ stOut.stage = Some("ready")) =>
        IF JobDownloads(AnsweredJob.downloads) = <<>>
        THEN ListedUrls = { AssetEntries[i].str : i \in
                              { j \in DOMAIN AssetEntries :
                                  HttpEntry(AssetEntries[j]) /\ CleanKey(AssetEntries[j].key) } }
        ELSE stOut.downloads = Some(FilterUrl(JobDownloads(AnsweredJob.downloads)))

\* the route answered for an asset that has no job
AnsweredNoJob ==
    stPc = "answered" /\ stSnap.rawOk /\ (~stSnap.listOk \/ stSnap.jobs = <<>>)

\* C13: when the asset has no job the answer is stage ready, progress 100
\* if the asset's own download map has an http URL entry whose key contains
\* neither "error" nor "info", and otherwise stage queued, progress 30 with
\* an empty download list.
C13_NoJobStageFromAssetDownloads ==
    AnsweredNoJob =>
        IF \E i \in DOMAIN AssetEntries :
              HttpEntry(AssetEntries[i]) /\ CleanKey(AssetEntries[i].key)
        THEN /\ stOut.stage = Some("ready") /\ stOut.progress = Some(100)
             /\ stOut.downloads # Some(<<>>)
        ELSE /\ stOut.stage = Some("queued") /\ stOut.progress = Some(30)
             /\ stOut.downloads = Some(<<>>)

\* an asset without a job whose download map holds only error.log and
\* info.json was answered queued with progress 30
C13_Witness ==
    /\ AnsweredNoJob
    /\ stSnap.rawDownloads = Some(<<StrEntry(K_errorLog, U_a), StrEntry(K_infoJson, U_b)>>)
    /\ stOut.stage = Some("queued") /\ stOut.progress = Some(30)

\* the job with the latest creation time
NewestJob ==
    stSnap.jobs[CHOOSE i \in DOMAIN stSnap.jobs :
                   \A j \in DOMAIN stSnap.jobs :
                      stSnap.jobs[j].created_at <= stSnap.jobs[i].created_at]

\* C14: when an asset has several jobs the answer's stage and job id are
\* derived from the job with the latest creation time, whatever order the
\* upstream lists the jobs in.
C14_LatestCreatedJobAnswered ==
    (AnsweredFromJob /\ Len(stSnap.jobs) > 1) =>
        /\ stOut.rapidmodelId = Some(NewestJob.id)
        /\ stOut.stage = Some(StageOfCase(SwitchCase(RapidStatus(NewestJob))))

\* C15: a failed read of the asset record is answered 404 with no stage
\* payload, and a readable asset record is never answered 404, whatever the
\* state of its job.
C15_NotFoundOnlyForUnreadableAsset ==
    stPc = "answered" =>
        /\ ~stSnap.rawOk =>
              (stOut.code = 404 /\ stOut.stage = None /\ stOut.progress = None
               /\ stOut.downloads = None)
        /\ stSnap.rawOk => (stOut.code = 200 /\ stOut.stage # None)

\* the asset read failed while the job list held a failed job: 404
C15_Witness ==
    /\ stPc = "answered" /\ ~stSnap.rawOk /\ stSnap.listOk
    /\ Len(stSnap.jobs) = 1
    /\ stSnap.jobs[1].optimization_status = Some(S_failed)
    /\ stOut.code = 404

(***************************************************************************)
(* Claims about cancellation                                               *)
(***************************************************************************)
\* C17: once the user cancels a flow, its poll loop issues no further status
\* request, whatever the user does next (a new flow started while the
\* cancelled loop sleeps included), and at no time do two poll loops have a
\* status request in flight whose answer they will write to the shared state.
C17_CancelledLoopStaysSilent ==
    /\ \A i \in DOMAIN session.loops :
          session.loops[i].cancelled => ~session.loops[i].requestAfterCancel
    /\ Cardinality({i \in DOMAIN session.loops : session.loops[i].pc = "fetch"}) <= 1

(***************************************************************************)
(* Claims about the end of the poll loop and the stuck detector            *)
(***************************************************************************)
\* the response carries at least one download
HasDownloads(body) == body.downloads # None /\ Len(body.downloads[1]) > 0

\* C16: the poll loop stops exactly when a tick reports ready with at least
\* one download, or a tick reports error, or the cancel flag is found set
\* at an iteration boundary; no other response ends it, a tick reporting
\* ready with an empty download list in particular.
C16_LoopEndsOnlyOnTerminalTick ==
    [][ /\ \A body \in PollResponses :
              PollTickOk(body) =>
                 (poll'.pc = "done" <=>
                     \/ StageOfBody(body) = "error"
                     \/ StageOfBody(body) = "ready" /\ HasDownloads(body))
        /\ PollTickFail => poll'.pc # "done"
        /\ (poll.pc # "done" /\ poll'.pc = "done") =>
              (poll.pc = "fetch" \/ (stop /\ poll.pc \in {"idle", "sleep"}))
        /\ (stop /\ poll.pc = "sleep" /\ poll'.pc # "sleep") => poll'.pc = "done" ]_vars

\* a tick reported ready with an empty download list and the loop went on
\* to its next sleep
C16_Witness ==
    /\ poll.pc = "sleep"
    /\ state.stage = "ready" /\ poll.currentStage = "ready"
    /\ downloads = <<>>
    /\ error = None

\* nudges sent in this session before the current row of stuck responses
NudgesBeforeRun == nudges - poll.runNudges

\* C18: while consecutive polls are stuck (progress at least 95 and below
\* 100, no downloads) the first nudge of the session is sent on the 10th
\* such poll and the counter is reset; the next nudge is sent only after 15
\* further consecutive stuck polls (15 is the threshold for every later
\* nudge); so within the first 20 polls of a row of stuck polls the nudge is
\* sent exactly once, and a poll that is not stuck resets the counter to 0.
C18_NudgeOnceWithinTwentyStuckPolls ==
    /\ poll.stuckRun = 0 => poll.stuckAt95Count = 0
    /\ NudgesBeforeRun = 0 =>
          /\ poll.stuckRun \in 0..9 => poll.runNudges = 0
          /\ poll.stuckRun \in 10..24 => poll.runNudges = 1
          /\ poll.stuckRun \in 25..39 => poll.runNudges = 2
    /\ NudgesBeforeRun > 0 =>
          /\ poll.stuckRun \in 0..14 => poll.runNudges = 0
          /\ poll.stuckRun \in 15..29 => poll.runNudges = 1
    /\ poll.stuckRun \in 15..20 => poll.runNudges = 1

\* twenty stuck polls in a row from the start of the session, one nudge
C18_Witness ==
    /\ poll.stuckRun = 20
    /\ ticks = 20
    /\ nudges = 1 /\ poll.runNudges = 1
    /\ poll.maxStuckRetries = 15

(***************************************************************************)
(* Claims about the ETA                                                    *)
(***************************************************************************)
\* C19: in stage queued and in stage processing, on every tick where the
\* time elapsed in the stage exceeds 1.75 times the learned average of the
\* stage the ETA shown is the "Taking longer than usual" message and not a
\* countdown, and every countdown shown is a non-negative duration.
C19_LongerThanUsualBeyondEnvelope ==
    [][ \A body \in PollResponses :
           (PollTickOk(body) /\ StageOfBody(body) \in {"queued", "processing"}) =>
              LET stage == StageOfBody(body)
                  since == IF stage = "queued" THEN poll'.queueStart ELSE poll'.procStart
                  elapsed == poll.now - (IF since # 0 THEN since ELSE poll.startedAt)
                  avg == getAvgMs(localStorage', stage)
              IN /\ 4 * elapsed > 7 * avg => state'.eta.k = "longer"
                 /\ state'.eta.k = "countdown" => (state'.eta.m >= 0 /\ state'.eta.s >= 0)
      ]_vars

\* C20: getAvgMs returns the stored value of a stage only when it is a
\* finite number greater than 0 and the fixed default (45000 ms queued,
\* 240000 ms processing) when it is absent, not a number, not finite, zero
\* or negative; so the average is positive after any updateAvgMs calls with
\* non-negative samples.
C20_AverageFallsBackToDefault ==
    \A stage \in {"queued", "processing"} :
       LET v == localStorage[stage]
           default == IF stage = "queued" THEN 45000 ELSE 240000
           avg == getAvgMs(localStorage, stage)
       IN /\ avg > 0
          /\ v.k \in {"absent", "text", "inf"} => avg = default
          /\ (v.k = "num" /\ v.v <= 0) => avg = default
          /\ (v.k = "num" /\ v.v > 0) => avg = v.v

\* a stored average of 1 ms updated with samples of 0 ms is still positive,
\* next to a stored negative value that reads as the default
C20_Witness ==
    /\ ticks = MaxUpdates
    /\ localStorage["queued"] = Num(1)
    /\ localStorage["processing"] = Num(0 - 5)
    /\ getAvgMs(localStorage, "processing") = 240000

(***************************************************************************)
(* Claims C21..C30                                                         *)
(***************************************************************************)
\* C21: a status request that fails never ends the poll loop: the tick
\* leaves the displayed progress and the error as they were, marks the
\* progress indeterminate, sets the delay to floor(1.5 x delay), at most
\* 10000 ms, and goes to sleep; and when a sleep ends the loop sends the next
\* status request unless the cancel flag is set.
C21_FailedFetchBacksOff ==
    [][ /\ PollTickFail =>
              /\ state'.progress = state.progress
              /\ state'.stage = state.stage
              /\ state'.indeterminate
              /\ error' = error
              /\ poll'.pc = "sleep"
              /\ poll'.delay = (IF 3 * poll.delay >= 20000 THEN 10000
                                ELSE (3 * poll.delay) \div 2)
        /\ (poll.pc = "sleep" /\ poll'.pc # "sleep") =>
              \/ stop /\ poll'.pc = "done" /\ ticks' = ticks
              \/ ~stop /\ ticks < MaxBackoffTicks /\ poll'.pc = "fetch"
                       /\ ticks' = ticks + 1
              \/ ~stop /\ ticks >= MaxBackoffTicks /\ poll'.pc = "cut" ]_vars

\* the backoff has reached its cap and the loop has sent another request
C21_Witness ==
    /\ poll.pc = "fetch"
    /\ poll.delay = 10000
    /\ state.indeterminate
    /\ ~stop
    /\ error = None

\* the requests of a fresh upload in the order of startFlow
UploadOrder == <<"start-upload", "transfer", "complete-upload", "tags", "optimize", "status">>

\* the flow asked for an upload and start-upload did not answer exists: true
FreshUpload ==
    /\ flow.log # <<>>
    /\ flow.log[1].req = "start-upload"
    /\ ~(flow.start # None /\ flow.start[1].exists)

\* the position in UploadOrder of the request a flow is waiting for
InFlight(pc) ==
    CASE pc = "transfer" -> 2 [] pc = "complete" -> 3 [] pc = "tags" -> 4
      [] pc = "optimize" -> 5 [] OTHER -> 0

\* C22: in a fresh upload the answered requests are a prefix of start-upload,
\* transfer, complete-upload, tags, optimize, status; every request but the
\* last answered one succeeded, tagging excepted; a request is in flight only
\* when all requests before it were answered; and a failed request other
\* than tagging, in particular the transfer, is the last one of the flow and
\* leaves an error shown.
C22_FreshUploadStrictlySequential ==
    FreshUpload =>
        /\ Len(flow.log) <= Len(UploadOrder)
        /\ \A i \in DOMAIN flow.log : flow.log[i].req = UploadOrder[i]
        /\ \A i \in DOMAIN flow.log :
              (~flow.log[i].ok /\ flow.log[i].req # "tags") =>
                  /\ i = Len(flow.log)
                  /\ flow.pc = "failed"
                  /\ error # None
        /\ InFlight(flow.pc) # 0 => Len(flow.log) = InFlight(flow.pc) - 1
        /\ flow.pc = "polling" => Len(flow.log) = 6

\* the transfer was refused: the flow stopped there with an error
C22_Witness ==
    /\ FreshUpload
    /\ Len(flow.log) = 2
    /\ flow.log[2] = Answered("transfer", FALSE)
    /\ flow.pc = "failed"
    /\ error # None

\* C23: when the tag request of a fresh upload failed, the flow went on: no
\* error is shown while the optimize request is in flight, a successful
\* optimize is followed by status polling with no error shown, and the flow
\* fails only if the optimize request itself fails.
C23_TagFailureSwallowed ==
    (FreshUpload /\ Len(flow.log) >= 4 /\ ~flow.log[4].ok) =>
        /\ flow.log[3] = Answered("complete-upload", TRUE)
        /\ flow.pc \in {"optimize", "polling", "failed"}
        /\ flow.pc = "optimize" => error = None /\ Len(flow.log) = 4
        /\ flow.pc = "polling" =>
              /\ error = None
              /\ flow.log[5] = Answered("optimize", TRUE)
              /\ flow.log[6] = Answered("status", TRUE)
        /\ flow.pc = "failed" =>
              /\ Len(flow.log) = 5
              /\ flow.log[5] = Answered("optimize", FALSE)

\* tagging failed and the flow reached status polling without an error
C23_Witness ==
    /\ FreshUpload
    /\ Len(flow.log) = 6
    /\ ~flow.log[4].ok
    /\ flow.pc = "polling"
    /\ error = None

\* C24: a start-upload answer 200 with exists: false carries the id the
\* upstream gave and the signed URL for the file name the client sent; and
\* when the upstream answered the upload-session request without an id or
\* without a signed URL for that file name, the route answers 502.
C24_SessionAnswerComplete ==
    (resp.route = "start" /\ ~resp.exists) =>
        /\ resp.code = 200 =>
              /\ resp.started # None
              /\ resp.id # None /\ resp.id = resp.started[1].id
              /\ resp.signedUrl = Some(FileName)
        /\ (resp.started # None /\ resp.started[1].ok
             /\ (resp.started[1].id = None \/ FileName \notin resp.started[1].urls)) =>
              /\ resp.code = 502
              /\ resp.id = None /\ resp.signedUrl = None

\* the upstream gave an id but a signed URL for another file only: 502
C24_Witness ==
    /\ resp.route = "start"
    /\ resp.code = 502
    /\ resp.started # None
    /\ resp.started[1].id # None
    /\ resp.started[1].urls = {OtherFile}

\* the payload order the route is to follow
ShapeOrder(withKey) ==
    <<"preset_id", "config.preset_id">>
    \o (IF withKey THEN <<"preset_key", "config.preset_key">> ELSE <<>>)
    \o <<"no preset">>

\* C25: for a request that names a rawmodelId, the payloads sent are a
\* prefix of preset_id, config.preset_id, the two preset_key shapes if a key
\* was sent, no preset; a payload is sent only after every earlier one was
\* rejected; the answer is 200 with the result of the accepted payload, which
\* is the last one sent, or 500 with the error of the last shape after all
\* shapes were sent and rejected.
C25_ShapesInOrderUntilAccepted ==
    (opt.pc \in {"sending", "answered"} /\ opt.rawmodelId # None) =>
        LET order == ShapeOrder(opt.presetKey # None)
            last == Len(opt.sent)
        IN  /\ last >= 1 /\ last <= Len(order)
            /\ \A j \in 1..last : opt.sent[j].shape = order[j]
            /\ \A j \in 1..(last - 1) : opt.sent[j].answer = "rejected"
            /\ opt.pc = "sending" => opt.sent[last].answer = "pending"
            /\ opt.pc = "answered" =>
                  \/ /\ opt.code = 200
                     /\ opt.sent[last].answer = "accepted"
                     /\ opt.out = Some(order[last])
                     /\ opt.err = None
                  \/ /\ opt.code = 500
                     /\ last = Len(order)
                     /\ opt.sent[last].answer = "rejected"
                     /\ opt.err = Some(order[last])
                     /\ opt.out = None

\* a key was sent, both preset_id shapes were rejected and preset_key was
\* accepted: the route answered without sending the last two shapes
C25_Witness ==
    /\ opt.pc = "answered"
    /\ opt.code = 200
    /\ opt.presetKey # None
    /\ Len(opt.sent) = 3
    /\ opt.out = Some("preset_key")

\* the string begins with the scheme and "://"
HasScheme(s, scheme) ==
    /\ Len(s) >= Len(scheme) + 3
    /\ \A i \in 1..Len(scheme) : s[i] = scheme[i]
    /\ s[Len(scheme) + 1] = ":" /\ s[Len(scheme) + 2] = "/" /\ s[Len(scheme) + 3] = "/"

HttpUrl(s) == HasScheme(s, <<"h","t","t","p">>) \/ HasScheme(s, <<"h","t","t","p","s">>)

\* C26: a proxy-download request makes at most 5 decode calls and stops
\* decoding when the string no longer changes, when a decode throws, or after
\* the 5th decode; it makes the outbound request, with the decoded string,
\* only if that string begins with http:// or https://, and otherwise
\* answers 400 with no outbound request.
C26_DecodeBoundedAndHttpOnly ==
    (proxy.pc \in {"fetching", "answered"}) =>
        /\ proxy.calls <= 5
        /\ proxy.url # <<>> =>
              \/ proxy.threw
              \/ proxy.calls = 5
              \/ decodeURIComponent(proxy.decodedUrl) = [ok |-> TRUE, v |-> proxy.decodedUrl]
        /\ proxy.fetched # None =>
              /\ proxy.fetched = Some(proxy.decodedUrl)
              /\ HttpUrl(proxy.decodedUrl)
        /\ ~HttpUrl(proxy.decodedUrl) =>
              /\ proxy.pc = "answered" /\ proxy.code = 400
              /\ proxy.fetched = None

\* a parameter encoded six times: five decodes were made and the result,
\* still encoded, was refused without an outbound request
C26_Witness ==
    /\ proxy.pc = "answered"
    /\ proxy.calls = 5 /\ ~proxy.threw
    /\ proxy.decodedUrl = encodeURIComponent(<<"h","t","t","p",":","/","/","x">>)
    /\ proxy.code = 400
    /\ proxy.fetched = None

\* the strings a download map of the upstream holds, nested maps included
UrlsOf(entries) ==
    {entries[i].str : i \in {j \in DOMAIN entries : entries[j].obj = None}}
    \cup UNION { {entries[i].obj[1][k].str : k \in DOMAIN entries[i].obj[1]} :
                   i \in {j \in DOMAIN entries : entries[j].obj # None} }

\* every download URL the upstream handed to the status route
UpstreamUrls ==
    (IF stSnap.rawDownloads = None THEN {} ELSE UrlsOf(stSnap.rawDownloads[1]))
    \cup UNION { IF stSnap.jobs[i].downloads = None THEN {}
                 ELSE UrlsOf(stSnap.jobs[i].downloads[1]) : i \in DOMAIN stSnap.jobs }

\* C27: no answer of GET /api/status/:id carries a download URL of the
\* upstream: the URLs it lists are none of the URLs the upstream gave.
C27_NoUpstreamUrlInStatus ==
    (stPc = "answered" /\ stOut.code = 200) =>
        \A i \in DOMAIN stOut.downloads[1] :
            stOut.downloads[1][i].url \notin UpstreamUrls

\* the lookup is in one of its searches
Searching == fb.pc \in {"search", "scan", "partial"}

\* the search is about to read the last page its bound allows
AtLastPage ==
    \/ fb.pc = "search" /\ fb.pageCount = 9
    \/ fb.pc \in {"scan", "partial"} /\ fb.pageCount = 19

\* C28: a targeted search never reads an 11th page and a full scan never a
\* 21st; the step after the last page a bound allows ends that search, with
\* a hit or by going on to the next search or to the end of the lookup; and
\* every lookup that was started comes to its end.
C28_LookupBoundedAndTerminates ==
    /\ [][ /\ fb'.pc = "search" => fb'.pageCount < 10
           /\ fb'.pc \in {"scan", "partial"} => fb'.pageCount < 20
           /\ (AtLastPage /\ fb' # fb) => (fb'.pc = "done" \/ fb'.pageCount = 0) ]_vars
    /\ (Searching ~> fb.pc = "done")

\* a lookup over a listing of more pages than a scan reads ended with "not
\* found" although no page read of a scan failed: every scan ran into its bound
C28_Witness ==
    /\ nPages > 20
    /\ fb.pc = "done"
    /\ fb.result = None
    /\ fb.okCalls /\ ~fb.scanFailed

\* C29: every findByHash call of server.js comes to its end, whatever the
\* continuation links of the catalog are.
C29_ServerLookupTerminates ==
    (legacy.pc \in {"search", "scan"}) ~> (legacy.pc = "done")

\* two strings are equal once the case of their letters is ignored
SameIgnoringCase(a, b) ==
    Len(a) = Len(b) /\ \A j \in 1..Len(a) : LowerChar(a[j]) = LowerChar(b[j])

\* the variant the search that ended the lookup was looking for
HitVariant ==
    IF fb.via = "partial" THEN partialVariants(fb.hash)[fb.i]
    ELSE searchVariants(fb.hash)[fb.i]

\* C30: the asset a search returns carries a tag that equals the variant
\* searched for, letter case ignored; an asset that a page lists and whose
\* tags merely contain the variant, or equal no variant at all, is not
\* returned.
C30_ReturnedAssetHasExactTag ==
    (fb.pc = "done" /\ fb.result # None) =>
        /\ fb.result[1] \in Existing
        /\ \E k \in DOMAIN assetTags[fb.result[1]] :
              SameIgnoringCase(assetTags[fb.result[1]][k], HitVariant)

\* the only asset carries sha256-<h>0; it is on the first page of the
\* listing, every scan was answered, and the lookup ended with "not found"
C30_Witness ==
    /\ assetPage[1] = 1
    /\ assetTags[1] = << P_sha256 \o HashA \o <<"0">> >>
    /\ fb.pc = "done" /\ fb.hash = HashA
    /\ fb.okCalls /\ ~fb.scanFailed
    /\ fb.result = None

(***************************************************************************)
(* Claims C31..C40                                                         *)
(***************************************************************************)
\* the number of variants the strategy tries
VariantCount(pc) == IF pc = "partial" THEN 3 ELSE 5

\* the strategy that follows when every variant of a strategy had no hit
StrategyAfter(pc) == IF pc = "search" THEN "scan" ELSE "partial"

\* the step belongs to one findByHash call that is searching
LookupStep == Searching /\ fb' # fb /\ fb'.caller = fb.caller /\ fb'.pc # "idle"

\* the step ends the search of the current variant without a hit
VariantGivenUp ==
    \/ fb'.pc = fb.pc /\ fb'.i = fb.i + 1 /\ fb.i < VariantCount(fb.pc)
          /\ fb'.pageCount = 0
    \/ fb.pc # "partial" /\ fb.i = VariantCount(fb.pc)
          /\ fb'.pc = StrategyAfter(fb.pc) /\ fb'.i = 1 /\ fb'.pageCount = 0
    \/ fb.pc = "partial" /\ fb.i = VariantCount(fb.pc)
          /\ fb'.pc = "done" /\ fb'.result = None

\* C31: within one findByHash call the variants of a strategy are searched
\* in their list order, one after the other; a hit ends the call with that
\* asset and no page request follows it; the full scans start only from the
\* last targeted variant, after it had no hit; and a failed page request
\* ends the search of the current variant only: the next variant, the next
\* strategy or, after the last partial variant, the end follows.
C31_OrderedShortCircuitLookup ==
    [][ /\ LookupStep =>
              \/ fb'.pc = "done" /\ fb'.result # None /\ fb'.via = fb.pc
                    /\ fb'.i = fb.i
              \/ fb'.pc = fb.pc /\ fb'.i = fb.i
                    /\ fb'.pageCount = fb.pageCount + 1
              \/ VariantGivenUp
        /\ (SearchPageFail \/ ScanPageFail) => VariantGivenUp
        /\ (fb.pc = "done" /\ fb.result # None /\ fb' # fb) => fb' = IdleLookup
        /\ (fb'.pc = "scan" /\ fb.pc # "scan") =>
              fb.pc = "search" /\ fb.i = 5 /\ fb'.result = None ]_vars

\* the scan for the first variant failed and the scan for the second
\* variant returned the asset
C31_Witness ==
    /\ fb.pc = "done"
    /\ fb.result # None
    /\ fb.via = "scan"
    /\ fb.i = 2
    /\ fb.scanFailed

\* the time at which the loop last entered the stage it is in
EnteredAt(k) == IF k = "queued" THEN poll.queueStart ELSE poll.procStart

\* C32: whenever a tick changes the stored average of queued, the stage
\* before that tick was queued and the sample is the time from the latest
\* entry into queued to the tick; the same for processing.
C32_SampleCoversOneStage ==
    [][ \A k \in {"queued", "processing"} :
          localStorage'[k] # localStorage[k] =>
             /\ poll.currentStage = k
             /\ localStorage'[k] =
                   Num((7 * getAvgMs(localStorage, k)
                        + 3 * (poll.now - EnteredAt(k)) + 5) \div 10) ]_vars

\* the step is a loop iteration whose request was answered and that goes
\* on to sleep
AnsweredTick == poll.pc = "fetch" /\ poll'.pc = "sleep" /\ ~PollTickFail

\* C33: the delay is 1000 ms when pollStatus starts and lies within
\* 1000..10000 ms ever after; an iteration whose request failed sets it to
\* floor(1.5 x delay), at most 10000; an answered iteration in stage
\* processing with a progress of 95 or more leaves it at 3000 or less; every
\* other answered iteration sets it to floor(1.2 x delay), at most 8000.
C33_DelayWithinBounds ==
    [][ /\ poll'.delay \in 1000..10000
        /\ PollStart => poll'.delay = 1000
        /\ PollTickFail =>
              poll'.delay = (IF 3 * poll.delay >= 20000 THEN 10000
                             ELSE (3 * poll.delay) \div 2)
        /\ AnsweredTick =>
              IF state'.stage = "processing" /\ poll'.p >= 95 * ProgScale
              THEN poll'.delay <= 3000
              ELSE poll'.delay = (IF 6 * poll.delay >= 40000 THEN 8000
                                  ELSE (6 * poll.delay) \div 5) ]_vars

\* failed requests had raised the delay above 3000 ms and an answered
\* iteration in processing at 95 or more brought it back to 3000 ms
C33_Witness ==
    /\ poll.pc = "sleep"
    /\ state.stage = "processing"
    /\ poll.p >= 95 * ProgScale
    /\ poll.delay = 3000
    /\ ticks >= 5

\* C34: a wait of processFile that has run out of time has raised its
\* timeout error: after the analysis wait the flow has failed with the error
\* shown and has not begun the optimize phase; after the optimization wait
\* "Optimization timeout" was raised and the flow did not take the optimized
\* download; after the conversion wait "Conversion timeout" was raised and
\* the flow has failed.
C34_TimedOutWaitRaises ==
    /\ "analyze" \in publicApp.timedOut =>
          /\ publicApp.pc = "failed"
          /\ publicApp.status.isError
          /\ "optimize" \notin Range(publicApp.log)
    /\ "optimize" \in publicApp.timedOut =>
          /\ "Optimization timeout" \in publicApp.raised
          /\ ~publicApp.wasOptimized
    /\ "convert" \in publicApp.timedOut =>
          /\ "Conversion timeout" \in publicApp.raised
          /\ publicApp.pc = "failed"

\* C35: when the addTags request of processFile fails, the flow goes on to
\* the analysis and the status line shows no error.
C35_PageTagFailureIgnored ==
    [][ (publicApp.pc = "tags" /\ publicApp'.tagsFailed) =>
            /\ publicApp'.pc = "analyze"
            /\ ~publicApp'.status.isError ]_vars

\* C36: after an update with stage error, as after one with stage ready or
\* progress 100, the loop of statusPoller.ts has ended.
C36_PollerEndsOnError ==
    (poller.shown # None /\ poller.pc # "done") =>
        /\ poller.shown[1].stage \notin {"ready", "error"}
        /\ poller.shown[1].progress < 100

\* C37: from one onUpdate call of a statusPoller.ts session to the next the
\* progress passed does not go down.
C37_PollerProgressMonotone ==
    [][ (poller.shown # None /\ poller'.shown # None) =>
            poller'.shown[1].progress >= poller.shown[1].progress ]_vars

\* the status words of a job that has ended with success
SuccessWords == {S_done, S_completed, S_finished, S_ready, S_success}

\* the asset has jobs and the status of the one listed last, lower-cased,
\* is a success word
LastJobSucceeded ==
    /\ Len(stSnap.jobs) > 0
    /\ stSnap.jobs[Len(stSnap.jobs)].optimization_status # None
    /\ ToLowerCase(stSnap.jobs[Len(stSnap.jobs)].optimization_status[1]) \in SuccessWords

\* C38: the status route answers stage ready only for an asset whose latest
\* job has ended with success or that has no job at all, whether or not the
\* job-list request succeeded.
C38_ReadyOnlyWhenJobDone ==
    (stPc = "answered" /\ stOut.code = 200 /\ stOut.stage = Some("ready")) =>
        (stSnap.jobs = <<>> \/ LastJobSucceeded)

\* the asset carries a tag that contains the whole hash, letter case ignored
CarriesWholeHash(a, hash) ==
    \E k \in DOMAIN assetTags[a] :
        Includes(ToLowerCase(assetTags[a][k]), ToLowerCase(hash))

\* C39: the asset findByHash returns carries a tag that contains the whole
\* hash looked for, and so does the asset start-upload reports as existing.
C39_DuplicateHasWholeHash ==
    /\ (fb.pc = "done" /\ fb.result # None) => CarriesWholeHash(fb.result[1], fb.hash)
    /\ (resp.route = "start" /\ resp.exists /\ resp.id # None) =>
           CarriesWholeHash(resp.id[1], flow.contentHash)

\* the step is an iteration of App.vue's loop whose answer reports stage
\* error (the loop keeps the reported stage in currentStage)
ErrorTick == poll.pc = "fetch" /\ poll'.pc # "fetch" /\ poll'.currentStage = "error"

\* C40: an iteration whose answer reports stage error ends the loop, sets
\* the error message and leaves the displayed progress and the displayed
\* stage as they were; the displayed stage is not error.
C40_ErrorTickKeepsDisplay ==
    [][ ErrorTick =>
          /\ poll'.pc = "done"
          /\ error' = Some("Optimization failed. Please try again.")
          /\ state'.progress = state.progress
          /\ state'.stage = state.stage
          /\ state'.stage # "error" ]_vars

\* the loop ended on an error answer while the page showed stage
\* processing with a progress above 0
C40_Witness ==
    /\ poll.pc = "done"
    /\ poll.currentStage = "error"
    /\ error # None
    /\ state.stage = "processing"
    /\ state.progress > 0

====
